---- MODULE Spec2Model ----
(***************************************************************************)
(* The RAG query path of the Enterprise Document Intelligence System:      *)
(* request validation, context retrieval, filtering, LLM re-ranking,       *)
(* context-window packing, answer generation, confidence scoring and the   *)
(* query log (src/backend/rag.py, src/backend/services.py,                  *)
(* src/backend/main.py, src/crud.py).                                       *)
(*                                                                         *)
(* Text is a TLA+ string; Len, SubSeq and \o act on it as Python's len,    *)
(* slicing and +.  A float is an IEEE 754 double, held by its exact value. *)
(***************************************************************************)
EXTENDS Integers, Sequences, FiniteSets, TLC

(***************************************************************************)
(* Naturals of any size: the digits base 2^15, lowest first, no zero digit *)
(* at the top; <<>> is 0                                                   *)
(***************************************************************************)
Abs(n) ==
    IF n < 0 THEN -n ELSE n

Base ==
    2 ^ 15

BNorm(a) ==
    LET used == {i \in 1..Len(a) : a[i] # 0}
    IN  IF used = {} THEN <<>>
        ELSE SubSeq(a, 1, CHOOSE i \in used : \A j \in used : j <= i)

\* 0 <= n < 2^31
BOf(n) ==
    IF n = 0 THEN <<>>
    ELSE IF n < Base THEN <<n>>
    ELSE IF n < Base * Base THEN <<n % Base, n \div Base>>
    ELSE <<n % Base, (n \div Base) % Base, n \div (Base * Base)>>

\* a < 2^30
BInt(a) ==
    IF a = <<>> THEN 0 ELSE IF Len(a) = 1 THEN a[1] ELSE a[1] + Base * a[2]

Digit(a, i) ==
    IF i <= Len(a) THEN a[i] ELSE 0

Short ==
    2 ^ 14

Pow2s ==
    {2 ^ k : k \in 0..30}

Log2(d) ==
    CHOOSE k \in 0..30 : d = 2 ^ k

\* a pair <<n, d>> of short numbers
ShortPair(x) ==
    Len(x) = 2 /\ -Short < x[1] /\ x[1] < Short /\ x[2] <= Short

\* a short binary fraction: the double n / 2^k itself
ShortDyadic(x) ==
    ShortPair(x) /\ x[2] \in Pow2s

\* n / d in lowest terms, d a power of two
RECURSIVE Dyadic(_, _)
Dyadic(n, d) ==
    IF d > 1 /\ n % 2 = 0 THEN Dyadic(n \div 2, d \div 2) ELSE <<n, d>>

RECURSIVE Gcd(_, _)
Gcd(a, b) ==
    IF b = 0 THEN a ELSE Gcd(b, a % b)

\* Every operation below is a case of Arith, one recursive definition: an
\* operation that uses another reaches it through Arith, with its arguments
\* computed first.
RECURSIVE Arith(_, _)

BAdd(a, b) ==
    Arith("BAdd", <<a, b>>)

BSub(a, b) ==
    Arith("BSub", <<a, b>>)

BCmp(a, b) ==
    Arith("BCmp", <<a, b>>)

BMulSmall(a, k) ==
    Arith("BMulSmall", <<a, k>>)

BMulFour(a, b, j) ==
    Arith("BMulFour", <<a, b, j>>)

BMul(a, b) ==
    Arith("BMul", <<a, b>>)

BShl(a, k) ==
    Arith("BShl", <<a, k>>)

BShr(a, k) ==
    Arith("BShr", <<a, k>>)

BDivInt(a, d) ==
    Arith("BDivInt", <<a, d>>)

BBitLen(a) ==
    Arith("BBitLen", <<a>>)

BTrailingZeros(a) ==
    Arith("BTrailingZeros", <<a>>)

BSqrt(a) ==
    Arith("BSqrt", <<a>>)

Canon(neg, m, e) ==
    Arith("Canon", <<neg, m, e>>)

Rounded(neg, m, e, sticky) ==
    Arith("Rounded", <<neg, m, e, sticky>>)

DivParts(neg, m, e, k) ==
    Arith("DivParts", <<neg, m, e, k>>)

\* n / d on integers, d > 0, and float() of the decimal n / 10^k: exact when
\* n / d is a binary fraction
Rat(n, d) ==
    LET g == Gcd(Abs(n), d)
    IN  IF (d \div g) \in Pow2s /\ Abs(n) \div g < 2 ^ 30 THEN <<n \div g, d \div g>>
        ELSE Arith("Rat", <<n, d>>)

Unpack(x) ==
    Arith("Unpack", <<x>>)

\* x + y: exact on short binary fractions, and x + 0 is x
RAdd(x, y) ==
    IF ShortDyadic(x) /\ ShortDyadic(y)
    THEN LET d == IF x[2] < y[2] THEN y[2] ELSE x[2]
         IN  Dyadic(x[1] * (d \div x[2]) + y[1] * (d \div y[2]), d)
    ELSE IF Len(x) = 3 /\ y = <<0, 1>> THEN x
    ELSE IF Len(y) = 3 /\ x = <<0, 1>> THEN y
    ELSE Arith("RAdd", <<x, y>>)

\* x * y: exact on short binary fractions, x * 0 is 0 and x * 1 is x
RMul(x, y) ==
    IF ShortDyadic(x) /\ ShortDyadic(y) THEN Dyadic(x[1] * y[1], x[2] * y[2])
    ELSE IF x = <<0, 1>> \/ y = <<0, 1>> THEN <<0, 1>>
    ELSE IF Len(x) = 3 /\ y = <<1, 1>> THEN x
    ELSE IF Len(y) = 3 /\ x = <<1, 1>> THEN y
    ELSE Arith("RMul", <<x, y>>)

\* x / k for an integer k > 0: exact on a short binary fraction and a power
\* of two, and a lower exponent for a long fraction and a power of two
RDivInt(x, k) ==
    IF ShortDyadic(x) /\ k <= Short /\ k \in Pow2s THEN Dyadic(x[1], x[2] * k)
    ELSE IF Len(x) = 3 /\ x[3] < 0 /\ k <= Short /\ k \in Pow2s
    THEN <<x[1], x[2], x[3] - Log2(k)>>
    ELSE Arith("RDivInt", <<x, k>>)

\* -1, 0, 1 as x < y, x = y, x > y.  Two short fractions that differ lie
\* further apart than rounding moves them: their doubles compare as they do.
RCmp(x, y) ==
    IF ShortPair(x) /\ ShortPair(y)
    THEN LET l == x[1] * y[2]
             r == y[1] * x[2]
         IN  IF l < r THEN -1 ELSE IF l = r THEN 0 ELSE 1
    ELSE Arith("RCmp", <<x, y>>)

RSqrt(x) ==
    Arith("RSqrt", <<x>>)

RNeg(x) ==
    IF Len(x) = 2 THEN <<-x[1], x[2]>> ELSE <<-x[1], x[2], x[3]>>

RSub(x, y) ==
    RAdd(x, RNeg(y))

\* x * k for an integer k >= 0
RMulInt(x, k) ==
    RMul(x, <<k, 1>>)

RLe(x, y) ==
    RCmp(x, y) <= 0

RLt(x, y) ==
    RCmp(x, y) < 0

\* max(x, y) and min(x, y)
RMax(x, y) ==
    IF RLe(x, y) THEN y ELSE x

RMin(x, y) ==
    IF RLe(x, y) THEN x ELSE y

\* a + b: position i takes a carry when a lower position overflows and every
\* position between them is full
BAddImpl(a, b) ==
    LET n        == IF Len(a) < Len(b) THEN Len(b) ELSE Len(a)
        s        == [i \in 1..n |-> Digit(a, i) + Digit(b, i)]
        carry(i) == IF \E j \in 1..(i - 1) :
                          s[j] >= Base /\ \A k \in (j + 1)..(i - 1) : s[k] = Base - 1
                    THEN 1 ELSE 0
    IN  [i \in 1..n |-> (s[i] + carry(i)) % Base]
            \o (IF carry(n + 1) = 1 THEN <<1>> ELSE <<>>)

\* a - b for a >= b
BSubImpl(a, b) ==
    LET borrow(i) == IF \E j \in 1..(i - 1) :
                           /\ a[j] < Digit(b, j)
                           /\ \A k \in (j + 1)..(i - 1) : a[k] = Digit(b, k)
                     THEN 1 ELSE 0
    IN  BNorm([i \in 1..Len(a) |-> (a[i] - Digit(b, i) - borrow(i) + Base) % Base])

\* -1, 0, 1 as a < b, a = b, a > b
BCmpImpl(a, b) ==
    IF Len(a) < Len(b) THEN -1
    ELSE IF Len(a) > Len(b) THEN 1
    ELSE IF \A i \in 1..Len(a) : a[i] = b[i] THEN 0
    ELSE LET i == CHOOSE i \in 1..Len(a) :
                      a[i] # b[i] /\ \A j \in (i + 1)..Len(a) : a[j] = b[j]
         IN  IF a[i] < b[i] THEN -1 ELSE 1

\* a * Base^n
BShiftDigits(a, n) ==
    IF a = <<>> THEN <<>> ELSE [i \in 1..n |-> 0] \o a

\* a * k for 0 <= k < 2^15
BMulSmallImpl(a, k) ==
    BAdd(BNorm([i \in 1..Len(a) |-> (a[i] * k) % Base]),
         BShiftDigits(BNorm([i \in 1..Len(a) |-> (a[i] * k) \div Base]), 1))

\* a * (b[j] + b[j + 1] * Base + b[j + 2] * Base^2 + b[j + 3] * Base^3)
BMulFourImpl(a, b, j) ==
    BAdd(BAdd(BMulSmall(a, Digit(b, j)),
              BShiftDigits(BMulSmall(a, Digit(b, j + 1)), 1)),
         BAdd(BShiftDigits(BMulSmall(a, Digit(b, j + 2)), 2),
              BShiftDigits(BMulSmall(a, Digit(b, j + 3)), 3)))

RECURSIVE BMulFrom(_, _, _)
BMulFrom(a, b, j) ==
    IF j > Len(b) THEN <<>>
    ELSE BAdd(BMulFour(a, b, j), BShiftDigits(BMulFrom(a, b, j + 4), 4))

BMulImpl(a, b) ==
    BMulFrom(a, b, 1)

\* a * 2^k
BShlImpl(a, k) ==
    BShiftDigits(BMulSmall(a, 2 ^ (k % 15)), k \div 15)

\* floor(a / 2^k)
BShrImpl(a, k) ==
    LET q == k \div 15
        r == k % 15
    IN  BNorm([i \in 1..(Len(a) - q) |->
                  Digit(a, i + q) \div (2 ^ r)
                      + (Digit(a, i + q + 1) % (2 ^ r)) * (2 ^ (15 - r))])

\* the digit q and the remainder of (r * Base + digit) / d, bit by bit; d <= 2^30
RECURSIVE DivBits(_, _, _, _, _)
DivBits(r, digit, d, j, q) ==
    IF j < 0 THEN [q |-> q, r |-> r]
    ELSE LET r2 == 2 * r + ((digit \div (2 ^ j)) % 2)
         IN  IF r2 >= d THEN DivBits(r2 - d, digit, d, j - 1, 2 * q + 1)
             ELSE DivBits(r2, digit, d, j - 1, 2 * q)

RECURSIVE BDivIntFrom(_, _, _, _)
BDivIntFrom(a, d, i, r) ==
    IF i = 0 THEN [q |-> <<>>, r |-> r]
    ELSE LET step == IF d <= Base
                     THEN [q |-> (r * Base + a[i]) \div d, r |-> (r * Base + a[i]) % d]
                     ELSE DivBits(r, a[i], d, 14, 0)
             rest == BDivIntFrom(a, d, i - 1, step.r)
         IN  [q |-> rest.q \o <<step.q>>, r |-> rest.r]

\* quotient and remainder of a / d for 0 < d <= 2^30
BDivIntImpl(a, d) ==
    LET x == BDivIntFrom(a, d, Len(a), 0)
    IN  [q |-> BNorm(x.q), r |-> x.r]

\* the number of bits of n, 0 <= n < 2^15
BitLenInt(n) ==
    CHOOSE k \in 0..15 : n < 2 ^ k /\ (k = 0 \/ n >= 2 ^ (k - 1))

BBitLenImpl(a) ==
    IF a = <<>> THEN 0 ELSE 15 * (Len(a) - 1) + BitLenInt(a[Len(a)])

\* bit k of a, bit 0 the lowest
BBit(a, k) ==
    (Digit(a, k \div 15 + 1) \div (2 ^ (k % 15))) % 2

\* the k lowest bits of a are 0
BLowZero(a, k) ==
    /\ \A i \in 1..(k \div 15) : Digit(a, i) = 0
    /\ Digit(a, k \div 15 + 1) % (2 ^ (k % 15)) = 0

\* the number of 0 bits below the lowest 1 bit of a > 0
BTrailingZerosImpl(a) ==
    LET i == CHOOSE i \in 1..Len(a) : a[i] # 0 /\ \A j \in 1..(i - 1) : a[j] = 0
        k == CHOOSE k \in 0..14 : a[i] % (2 ^ (k + 1)) # 0 /\ a[i] % (2 ^ k) = 0
    IN  15 * (i - 1) + k

\* floor(sqrt(a)) from its bits above bit hi, in res, down to bit lo: a bit is
\* set when the square stays within a
RECURSIVE BSqrtBits(_, _, _, _)
BSqrtBits(a, res, hi, lo) ==
    IF hi = lo
    THEN LET cand == BAdd(res, BShl(<<1>>, hi))
         IN  IF BCmp(BMul(cand, cand), a) <= 0 THEN cand ELSE res
    ELSE LET mid   == (hi + lo) \div 2
             upper == BSqrtBits(a, res, hi, mid + 1)
         IN  IF upper = res THEN BSqrtBits(a, res, mid, lo)
             ELSE BSqrtBits(a, upper, mid, lo)

\* floor(sqrt(a)) for a > 0
BSqrtImpl(a) ==
    BSqrtBits(a, <<>>, (BBitLen(a) + 1) \div 2, 0)

(***************************************************************************)
(* Floats: IEEE 754 doubles, each by its exact value.  A double n / 2^k    *)
(* with |n| < 2^30 and k <= 30 is the pair <<n, 2^k>> in lowest terms; any *)
(* other double is <<sign, m, e>>, the value sign * m * 2^e with m odd, a  *)
(* natural of up to 53 bits.  A pair <<n, d>> whose d is no power of two   *)
(* is a decimal literal: it stands for the double nearest to n / d, as     *)
(* float("0.9") and 9 / 10 give it.  Every operation computes the exact    *)
(* result and rounds it once to 53 bits, ties to even; no value of the     *)
(* program comes near the subnormal or the infinite.                       *)
(***************************************************************************)
\* F(v), with v computed before F: the order of the statements of the code
Then(first, F(_)) ==
    CHOOSE result \in {F(known) : known \in {first}} : TRUE

Zero ==
    <<0, 1>>

One ==
    <<1, 1>>

IsPow2(d) ==
    d \in Pow2s

\* the double of the exact value sign * m * 2^e, m of at most 53 bits
CanonImpl(neg, m, e) ==
    IF m = <<>> THEN Zero
    ELSE LET tz == BTrailingZeros(m)
             m2 == BShr(m, tz)
             e2 == e + tz
             s  == IF neg THEN -1 ELSE 1
         IN  IF e2 <= 0 /\ e2 >= -30 /\ BBitLen(m2) <= 30
             THEN <<s * BInt(m2), 2 ^ (-e2)>>
             ELSE IF e2 > 0 /\ BBitLen(m2) + e2 <= 30
             THEN <<s * BInt(m2) * (2 ^ e2), 1>>
             ELSE <<s, m2, e2>>

\* the double nearest to sign * m * 2^e (to a little more than it when sticky),
\* ties to even
RoundedImpl(neg, m, e, sticky) ==
    LET len  == BBitLen(m)
        drop == IF len > 53 THEN len - 53 ELSE 0
        kept == BShr(m, drop)
        up   == /\ drop > 0
                /\ BBit(m, drop - 1) = 1
                /\ (sticky \/ ~BLowZero(m, drop - 1) \/ BBit(kept, 0) = 1)
    IN  Canon(neg, IF up THEN BAdd(kept, <<1>>) ELSE kept, e + drop)

\* sign * m * 2^e / k for an integer 0 < k <= 2^30: the quotient to 56 bits
\* or more, rounded
DivPartsImpl(neg, m, e, k) ==
    LET need  == 56 + BBitLen(BOf(k)) - BBitLen(m)
        shift == IF need > 0 THEN need ELSE 0
        q     == BDivInt(BShl(m, shift), k)
    IN  Rounded(neg, q.q, e - shift, q.r # 0)

\* n / d on integers, d > 0; float() of the decimal n / 10^k
RatImpl(n, d) ==
    IF n = 0 THEN Zero ELSE DivParts(n < 0, BOf(Abs(n)), 0, d)

\* sign, m and e of a float
UnpackImpl(x) ==
    LET y == IF Len(x) = 2 /\ ~IsPow2(x[2]) THEN Rat(x[1], x[2]) ELSE x
    IN  IF Len(y) = 3 THEN [neg |-> y[1] < 0, m |-> y[2], e |-> y[3]]
        ELSE [neg |-> y[1] < 0, m |-> BOf(Abs(y[1])), e |-> -Log2(y[2])]

RAddImpl(x, y) ==
    LET a  == Unpack(x)
        b  == Unpack(y)
        e  == IF a.e < b.e THEN a.e ELSE b.e
        ma == BShl(a.m, a.e - e)
        mb == BShl(b.m, b.e - e)
    IN  IF a.m = <<>> THEN Canon(b.neg, b.m, b.e)
        ELSE IF b.m = <<>> THEN Canon(a.neg, a.m, a.e)
        ELSE IF a.neg = b.neg THEN Rounded(a.neg, BAdd(ma, mb), e, FALSE)
        ELSE IF BCmp(ma, mb) >= 0 THEN Rounded(a.neg, BSub(ma, mb), e, FALSE)
        ELSE Rounded(b.neg, BSub(mb, ma), e, FALSE)

RMulImpl(x, y) ==
    LET a == Unpack(x)
        b == Unpack(y)
    IN  IF a.m = <<>> \/ b.m = <<>> THEN Zero
        ELSE Rounded(a.neg # b.neg, BMul(a.m, b.m), a.e + b.e, FALSE)

\* x / k for an integer k > 0
RDivIntImpl(x, k) ==
    LET a == Unpack(x)
    IN  IF a.m = <<>> THEN Zero ELSE DivParts(a.neg, a.m, a.e, k)

\* -1, 0, 1 as x < y, x = y, x > y
RCmpImpl(x, y) ==
    LET a   == Unpack(x)
        b   == Unpack(y)
        e   == IF a.e < b.e THEN a.e ELSE b.e
        mag == BCmp(BShl(a.m, a.e - e), BShl(b.m, b.e - e))
    IN  IF a.m = <<>> /\ b.m = <<>> THEN 0
        ELSE IF a.m = <<>> THEN (IF b.neg THEN 1 ELSE -1)
        ELSE IF b.m = <<>> THEN (IF a.neg THEN -1 ELSE 1)
        ELSE IF a.neg /\ ~b.neg THEN -1
        ELSE IF ~a.neg /\ b.neg THEN 1
        ELSE IF a.neg THEN -mag ELSE mag

\* math.sqrt(x) for x >= 0: the root of m * 2^s to 55 bits or more, rounded
RSqrtImpl(x) ==
    LET a  == Unpack(x)
        s0 == IF BBitLen(a.m) < 110 THEN 110 - BBitLen(a.m) ELSE 0
        s  == s0 + ((a.e - s0) % 2)
        n  == BShl(a.m, s)
        r  == BSqrt(n)
    IN  IF a.m = <<>> THEN Zero
        ELSE Rounded(FALSE, r, (a.e - s) \div 2, BMul(r, r) # n)

Arith(op, args) ==
    CASE op = "BAdd" -> BAddImpl(args[1], args[2])
      [] op = "BMulSmall" -> BMulSmallImpl(args[1], args[2])
      [] op = "BShl" -> BShlImpl(args[1], args[2])
      [] op = "BShr" -> BShrImpl(args[1], args[2])
      [] op = "BBitLen" -> BBitLenImpl(args[1])
      [] op = "BCmp" -> BCmpImpl(args[1], args[2])
      [] op = "BSub" -> BSubImpl(args[1], args[2])
      [] op = "BTrailingZeros" -> BTrailingZerosImpl(args[1])
      [] op = "Canon" -> CanonImpl(args[1], args[2], args[3])
      [] op = "Rounded" -> RoundedImpl(args[1], args[2], args[3], args[4])
      [] op = "Unpack" -> UnpackImpl(args[1])
      [] op = "BMulFour" -> BMulFourImpl(args[1], args[2], args[3])
      [] op = "BMul" -> BMulImpl(args[1], args[2])
      [] op = "BDivInt" -> BDivIntImpl(args[1], args[2])
      [] op = "DivParts" -> DivPartsImpl(args[1], args[2], args[3], args[4])
      [] op = "Rat" -> RatImpl(args[1], args[2])
      [] op = "RCmp" -> RCmpImpl(args[1], args[2])
      [] op = "RAdd" -> RAddImpl(args[1], args[2])
      [] op = "RMul" -> RMulImpl(args[1], args[2])
      [] op = "RDivInt" -> RDivIntImpl(args[1], args[2])
      [] op = "BSqrt" -> BSqrtImpl(args[1])
      [] op = "RSqrt" -> RSqrtImpl(args[1])

\* sum(s): 0 + s[1] + ... + s[n], from the left
RECURSIVE RSum(_)
RSum(s) ==
    IF s = <<>> THEN Zero
    ELSE Then(RSum(SubSeq(s, 1, Len(s) - 1)), LAMBDA sum : RAdd(sum, s[Len(s)]))

(***************************************************************************)
(* Text                                                                    *)
(***************************************************************************)
Ch(s, i) ==
    SubSeq(s, i, i)

\* s[:n]
Prefix(s, n) ==
    SubSeq(s, 1, IF n < Len(s) THEN n ELSE Len(s))

\* c * n
RECURSIVE Rep(_, _)
Rep(c, n) ==
    IF n = 0 THEN ""
    ELSE IF n % 2 = 0 THEN LET h == Rep(c, n \div 2) IN h \o h
    ELSE c \o Rep(c, n - 1)

\* the characters up to \xff that str.lower() changes
UpperChars ==
    {"A", "B", "C", "D", "E", "F", "G", "H", "I", "J", "K", "L", "M",
     "N", "O", "P", "Q", "R", "S", "T", "U", "V", "W", "X", "Y", "Z",
     "À", "Á", "Â", "Ã", "Ä", "Å", "Æ", "Ç", "È", "É", "Ê", "Ë", "Ì", "Í", "Î", "Ï",
     "Ð", "Ñ", "Ò", "Ó", "Ô", "Õ", "Ö", "Ø", "Ù", "Ú", "Û", "Ü", "Ý", "Þ"}

\* str.lower() of one character: the capital letters up to \xff
LowerCh(c) ==
    IF c \notin UpperChars THEN c ELSE
    CASE c = "A" -> "a" [] c = "B" -> "b" [] c = "C" -> "c" [] c = "D" -> "d"
      [] c = "E" -> "e" [] c = "F" -> "f" [] c = "G" -> "g" [] c = "H" -> "h"
      [] c = "I" -> "i" [] c = "J" -> "j" [] c = "K" -> "k" [] c = "L" -> "l"
      [] c = "M" -> "m" [] c = "N" -> "n" [] c = "O" -> "o" [] c = "P" -> "p"
      [] c = "Q" -> "q" [] c = "R" -> "r" [] c = "S" -> "s" [] c = "T" -> "t"
      [] c = "U" -> "u" [] c = "V" -> "v" [] c = "W" -> "w" [] c = "X" -> "x"
      [] c = "Y" -> "y" [] c = "Z" -> "z"
      [] c = "À" -> "à" [] c = "Á" -> "á" [] c = "Â" -> "â" [] c = "Ã" -> "ã"
      [] c = "Ä" -> "ä" [] c = "Å" -> "å" [] c = "Æ" -> "æ" [] c = "Ç" -> "ç"
      [] c = "È" -> "è" [] c = "É" -> "é" [] c = "Ê" -> "ê" [] c = "Ë" -> "ë"
      [] c = "Ì" -> "ì" [] c = "Í" -> "í" [] c = "Î" -> "î" [] c = "Ï" -> "ï"
      [] c = "Ð" -> "ð" [] c = "Ñ" -> "ñ" [] c = "Ò" -> "ò" [] c = "Ó" -> "ó"
      [] c = "Ô" -> "ô" [] c = "Õ" -> "õ" [] c = "Ö" -> "ö" [] c = "Ø" -> "ø"
      [] c = "Ù" -> "ù" [] c = "Ú" -> "ú" [] c = "Û" -> "û" [] c = "Ü" -> "ü"
      [] c = "Ý" -> "ý" [] c = "Þ" -> "þ"

\* s is one character repeated
Uniform(s) ==
    Len(s) > 0 /\ s = Rep(Ch(s, 1), Len(s))

\* str.lower(): character by character; a run of one character is lowered at once
RECURSIVE Lower(_)
Lower(s) ==
    IF Len(s) = 0 THEN ""
    ELSE IF Uniform(s) THEN Rep(LowerCh(Ch(s, 1)), Len(s))
    ELSE LET h == Len(s) \div 2
         IN  Lower(SubSeq(s, 1, h)) \o Lower(SubSeq(s, h + 1, Len(s)))

\* str.isspace() of one character, the white space of str.strip() and
\* str.split(): space, \t, \n, \r, \f, and, written as the characters
\* themselves, \x0b, \x1c, \x1d, \x1e, \x1f, \x85 and \xa0 (the white space
\* above \xff cannot stand in a TLA+ string)
IsSpace(c) ==
    c \in {" ", "\n", "\t", "\r", "\f", "", "", "", "", "", "", " "}

\* str.strip()
Strip(s) ==
    LET n == Len(s)
    IN  IF \A i \in 1..n : IsSpace(Ch(s, i)) THEN ""
        ELSE LET lead  == CHOOSE k \in 0..(n - 1) :
                              /\ ~IsSpace(Ch(s, k + 1))
                              /\ \A j \in 1..k : IsSpace(Ch(s, j))
                 trail == CHOOSE k \in 0..(n - 1) :
                              /\ ~IsSpace(Ch(s, n - k))
                              /\ \A j \in (n - k + 1)..n : IsSpace(Ch(s, j))
             IN  SubSeq(s, lead + 1, n - trail)

\* str.startswith(p)
StartsWith(s, p) ==
    Len(s) >= Len(p) /\ SubSeq(s, 1, Len(p)) = p

\* p in s
Contains(s, p) ==
    \E i \in 1..(Len(s) - Len(p) + 1) : SubSeq(s, i, i + Len(p) - 1) = p

\* set(str.split()): the maximal runs of non-whitespace characters; a run of one
\* character is one word
WordSet(s) ==
    IF Uniform(s) THEN (IF IsSpace(Ch(s, 1)) THEN {} ELSE {s}) ELSE
    LET n      == Len(s)
        starts == {i \in 1..n : ~IsSpace(Ch(s, i)) /\ (i = 1 \/ IsSpace(Ch(s, i - 1)))}
        ends   == {j \in 1..n : ~IsSpace(Ch(s, j)) /\ (j = n \/ IsSpace(Ch(s, j + 1)))}
        EndOf(i) == CHOOSE j \in ends : j >= i /\ \A k \in ends : k >= i => j <= k
    IN  {SubSeq(s, i, EndOf(i)) : i \in starts}

Digits ==
    <<"0", "1", "2", "3", "4", "5", "6", "7", "8", "9">>

IsDigit(c) ==
    \E k \in 1..10 : Digits[k] = c

DigitVal(c) ==
    (CHOOSE k \in 1..10 : Digits[k] = c) - 1

\* str(n) for n >= 0
RECURSIVE IntToStr(_)
IntToStr(n) ==
    IF n < 10 THEN Digits[n + 1] ELSE IntToStr(n \div 10) \o Digits[(n % 10) + 1]

RECURSIVE DigitsToInt(_)
DigitsToInt(s) ==
    IF Len(s) = 0 THEN 0
    ELSE 10 * DigitsToInt(SubSeq(s, 1, Len(s) - 1)) + DigitVal(Ch(s, Len(s)))

RECURSIVE Pow10(_)
Pow10(k) ==
    IF k = 0 THEN 1 ELSE 10 * Pow10(k - 1)

(***************************************************************************)
(* Configuration: RAGConfig defaults and the literals of the pipeline      *)
(***************************************************************************)
max_context_length ==
    4000

top_k_retrieval ==
    10

final_context_chunks ==
    5

min_relevance_score ==
    <<1, 10>>

CharsPerToken ==
    4

TruncateThreshold ==
    100

RerankLimit ==
    8

PreviewChars ==
    200

FallbackChars ==
    500

AnswerLengthNorm ==
    200

MinContentLength ==
    10

QueryMinLength ==
    1

QueryMaxLength ==
    1000

MaxResultsGe ==
    1

MaxResultsLe ==
    20

\* overlap > 0.7
DiversityThreshold ==
    <<7, 10>>

\* each uncertainty phrase costs 0.2
UncertaintyStep ==
    Rat(1, 5)

\* citation_score without a citation marker
NoCitationScore ==
    Rat(7, 10)

FallbackConfidence ==
    <<1, 2>>

JunkPrefixes ==
    {"error", "warning", "debug"}

UncertaintyPhrases ==
    {"i don't know", "unclear", "insufficient information", "not enough"}

NoContextAnswer ==
    "I don't have enough information in the knowledge base to answer this question."

\* Python's None where a string is expected
None ==
    "<None>"

(***************************************************************************)
(* ContextChunk and the pure stages of EnhancedRAGSystem                    *)
(***************************************************************************)
ContextChunk(content, source_id, metadata, relevance_score) ==
    [content |-> content, source_id |-> source_id, metadata |-> metadata,
     relevance_score |-> relevance_score, retrieval_method |-> "semantic"]

\* relevance_score = max(0.0, 1.0 - distance)
RelevanceOf(distance) ==
    RMax(Zero, RSub(One, distance))

\* a loop that forgets the minimum relevance filter
BuildChunksUnfiltered(hits) ==
    [i \in 1..Len(hits) |->
        ContextChunk(hits[i].document, hits[i].id, hits[i].metadata,
                     RelevanceOf(hits[i].distance))]

\* relevance_score >= self.config.min_relevance_score
PassesMinRelevance(score) ==
    RLe(min_relevance_score, score)

\* the loop of retrieve_context over zip(documents, ids, metadatas, distances)
RECURSIVE BuildChunks(_)
BuildChunks(hits) ==
    IF hits = <<>> THEN <<>>
    ELSE LET h     == Head(hits)
             score == RelevanceOf(h.distance)
             rest  == BuildChunks(Tail(hits))
         IN  IF PassesMinRelevance(score)
             THEN <<ContextChunk(h.document, h.id, h.metadata, score)>> \o rest
             ELSE rest

\* a quality filter that tests the junk prefixes without lower-casing the content
QualityOkCaseSensitive(chunk) ==
    /\ Len(Strip(chunk.content)) >= MinContentLength
    /\ ~\E p \in JunkPrefixes : StartsWith(chunk.content, p)

QualityOk(chunk) ==
    LET lowered == Lower(chunk.content)
    IN  /\ Len(Strip(chunk.content)) >= MinContentLength
        /\ ~\E p \in JunkPrefixes : StartsWith(lowered, p)

\* an overlap test that compares the words without lower-casing them
TooSimilarCaseSensitive(chunk, existing_chunk) ==
    LET chunk_words    == WordSet(chunk.content)
        existing_words == WordSet(existing_chunk.content)
    IN  /\ chunk_words # {}
        /\ existing_words # {}
        /\ RLt(DiversityThreshold,
               Rat(Cardinality(chunk_words \cap existing_words),
                   Cardinality(chunk_words \cup existing_words)))

\* len(a & b) / len(a | b) > 0.7 for non-empty word sets
TooSimilar(chunk, existing_chunk) ==
    LET chunk_words    == WordSet(Lower(chunk.content))
        existing_words == WordSet(Lower(existing_chunk.content))
    IN  /\ chunk_words # {}
        /\ existing_words # {}
        /\ RLt(DiversityThreshold,
               Rat(Cardinality(chunk_words \cap existing_words),
                   Cardinality(chunk_words \cup existing_words)))

RECURSIVE DiversityLoop(_, _)
DiversityLoop(diverse_chunks, rest) ==
    IF rest = <<>> THEN diverse_chunks
    ELSE LET chunk == Head(rest)
             should_include ==
                 ~\E k \in 1..Len(diverse_chunks) : TooSimilar(chunk, diverse_chunks[k])
         IN  DiversityLoop(IF should_include THEN Append(diverse_chunks, chunk)
                           ELSE diverse_chunks,
                           Tail(rest))

\* a diversity filter that compares a chunk with every other chunk of its input
ensure_diversity_against_all(chunks) ==
    LET Distinct(c) == ~\E k \in 1..Len(chunks) :
                           chunks[k] # c /\ TooSimilar(c, chunks[k])
    IN  IF Len(chunks) <= 1 THEN chunks ELSE SelectSeq(chunks, Distinct)

\* a diversity filter that forgets to seed the result with the first chunk
ensure_diversity_unseeded(chunks) ==
    IF Len(chunks) <= 1 THEN chunks
    ELSE DiversityLoop(<<>>, Tail(chunks))

ensure_diversity(chunks) ==
    IF Len(chunks) <= 1 THEN chunks
    ELSE DiversityLoop(<<Head(chunks)>>, Tail(chunks))

\* content quality filtering
quality_filter(chunks) ==
    SelectSeq(chunks, QualityOk)

\* user filters where min_score is an elif of file_type
user_filter_first_key_only(chunks, filter_params) ==
    LET TypeOk(c)  == c.metadata.file_type = filter_params.file_type
        ScoreOk(c) == RLe(filter_params.min_score, c.relevance_score)
    IN  IF "file_type" \in filter_params.keys THEN SelectSeq(chunks, TypeOk)
        ELSE IF "min_score" \in filter_params.keys THEN SelectSeq(chunks, ScoreOk)
        ELSE chunks

\* the user-specified filters: file_type, then min_score
user_filter(chunks, filter_params) ==
    LET TypeOk(c)  == c.metadata.file_type = filter_params.file_type
        ScoreOk(c) == RLe(filter_params.min_score, c.relevance_score)
        typed      == IF "file_type" \in filter_params.keys
                      THEN SelectSeq(chunks, TypeOk) ELSE chunks
    IN  IF "min_score" \in filter_params.keys
        THEN SelectSeq(typed, ScoreOk) ELSE typed

apply_advanced_filtering(chunks, filter_params) ==
    ensure_diversity(user_filter(quality_filter(chunks), filter_params))

\* sorted(chunks, key=lambda x: x.relevance_score, reverse=True): stable
\* an insertion that puts a chunk before the chunks of equal score
InsertByScoreBeforeEqual(sorted, chunk) ==
    LET k == Cardinality({i \in 1..Len(sorted) :
                             RLt(chunk.relevance_score, sorted[i].relevance_score)})
    IN  SubSeq(sorted, 1, k) \o <<chunk>> \o SubSeq(sorted, k + 1, Len(sorted))

RECURSIVE InsertByScore(_, _)
InsertByScore(sorted, chunk) ==
    IF sorted = <<>> THEN <<chunk>>
    ELSE IF RLt(Head(sorted).relevance_score, chunk.relevance_score)
         THEN <<chunk>> \o sorted
         ELSE <<Head(sorted)>> \o InsertByScore(Tail(sorted), chunk)

RECURSIVE SortByScore(_)
SortByScore(chunks) ==
    IF chunks = <<>> THEN <<>>
    ELSE InsertByScore(SortByScore(SubSeq(chunks, 1, Len(chunks) - 1)),
                       chunks[Len(chunks)])

\* re.search(r"[\d.]+", text): the first maximal run of digits and dots, "" if none
IsNumCh(c) ==
    IsDigit(c) \/ c = "."

NumberMatch(text) ==
    LET n == Len(text)
    IN  IF \A i \in 1..n : ~IsNumCh(Ch(text, i)) THEN ""
        ELSE LET a == CHOOSE i \in 1..n :
                          /\ IsNumCh(Ch(text, i))
                          /\ \A j \in 1..(i - 1) : ~IsNumCh(Ch(text, j))
                 b == CHOOSE j \in a..n :
                          /\ \A k \in a..j : IsNumCh(Ch(text, k))
                          /\ (j = n \/ ~IsNumCh(Ch(text, j + 1)))
             IN  SubSeq(text, a, b)

\* float(run) for a run of digits and dots: a ValueError unless the run holds
\* a digit and at most one dot
FloatOk(run) ==
    /\ \E i \in 1..Len(run) : IsDigit(Ch(run, i))
    /\ Cardinality({i \in 1..Len(run) : Ch(run, i) = "."}) <= 1

FloatOf(run) ==
    LET dots == {i \in 1..Len(run) : Ch(run, i) = "."}
        dot  == IF dots = {} THEN Len(run) + 1 ELSE CHOOSE i \in dots : TRUE
        int  == SubSeq(run, 1, dot - 1)
        frac == SubSeq(run, dot + 1, Len(run))
    IN  Rat(DigitsToInt(int \o frac), Pow10(Len(frac)))

\* a re-ranking pass that takes an LLM score of 0.0 when the call or the parse fails
EvaluateChunkZeroOnFailure(chunk, outcome) ==
    LET eval_text   == Lower(outcome.content)
        score_match == NumberMatch(eval_text)
        llm_score   == IF /\ ~outcome.raises
                          /\ Contains(eval_text, "score")
                          /\ score_match # ""
                          /\ FloatOk(score_match)
                       THEN FloatOf(score_match) ELSE Zero
    IN  [chunk EXCEPT !.relevance_score = RDivInt(RAdd(chunk.relevance_score, llm_score), 2)]

\* one pass of the re-ranking loop over a candidate, given what the LLM call did
EvaluateChunk(chunk, outcome) ==
    IF outcome.raises THEN chunk
    ELSE LET eval_text   == Lower(outcome.content)
             score_match == NumberMatch(eval_text)
         IN  IF Contains(eval_text, "score") /\ score_match # "" /\ FloatOk(score_match)
             THEN [chunk EXCEPT !.relevance_score =
                       RDivInt(RAdd(chunk.relevance_score, FloatOf(score_match)), 2)]
             ELSE chunk

\* the candidates of the re-ranking loop: chunks[: min(8, len(chunks))]
\* a re-ranker that evaluates every chunk
RerankCandidateCountUnlimited(chunks) ==
    Len(chunks)

RerankCandidateCount(chunks) ==
    IF RerankLimit < Len(chunks) THEN RerankLimit ELSE Len(chunks)

\* rough token estimation (1 token ~ 4 characters)
ChunkTokens(chunk) ==
    Len(chunk.content) \div CharsPerToken

\* a truncation that is one token too long
TruncatedOneTokenLong(chunk, remaining_tokens) ==
    [chunk EXCEPT !.content =
        Prefix(chunk.content, (remaining_tokens + 1) * CharsPerToken) \o "..."]

Truncated(chunk, remaining_tokens) ==
    [chunk EXCEPT !.content = Prefix(chunk.content, remaining_tokens * CharsPerToken) \o "..."]

\* a packer that goes on to the next chunk when one cannot be included
RECURSIVE PackLoopSkipping(_, _, _)
PackLoopSkipping(selected_chunks, total_length, rest) ==
    IF rest = <<>> THEN selected_chunks
    ELSE LET chunk        == Head(rest)
             chunk_tokens == ChunkTokens(chunk)
         IN  IF total_length + chunk_tokens <= max_context_length
             THEN LET selected == Append(selected_chunks, chunk)
                  IN  IF Len(selected) >= final_context_chunks THEN selected
                      ELSE PackLoopSkipping(selected, total_length + chunk_tokens,
                                            Tail(rest))
             ELSE LET remaining_tokens == max_context_length - total_length
                  IN  IF remaining_tokens > TruncateThreshold
                      THEN Append(selected_chunks, Truncated(chunk, remaining_tokens))
                      ELSE PackLoopSkipping(selected_chunks, total_length, Tail(rest))

\* a packer that truncates when exactly TruncateThreshold tokens remain
RECURSIVE PackLoopAtThreshold(_, _, _)
PackLoopAtThreshold(selected_chunks, total_length, rest) ==
    IF rest = <<>> THEN selected_chunks
    ELSE LET chunk        == Head(rest)
             chunk_tokens == ChunkTokens(chunk)
         IN  IF total_length + chunk_tokens <= max_context_length
             THEN LET selected == Append(selected_chunks, chunk)
                  IN  IF Len(selected) >= final_context_chunks THEN selected
                      ELSE PackLoopAtThreshold(selected, total_length + chunk_tokens,
                                               Tail(rest))
             ELSE LET remaining_tokens == max_context_length - total_length
                  IN  IF remaining_tokens >= TruncateThreshold
                      THEN Append(selected_chunks, Truncated(chunk, remaining_tokens))
                      ELSE selected_chunks

RECURSIVE PackLoop(_, _, _)
PackLoop(selected_chunks, total_length, rest) ==
    IF rest = <<>> THEN selected_chunks
    ELSE LET chunk        == Head(rest)
             chunk_tokens == ChunkTokens(chunk)
         IN  IF total_length + chunk_tokens <= max_context_length
             THEN LET selected == Append(selected_chunks, chunk)
                  IN  IF Len(selected) >= final_context_chunks THEN selected
                      ELSE PackLoop(selected, total_length + chunk_tokens, Tail(rest))
             ELSE LET remaining_tokens == max_context_length - total_length
                  IN  IF remaining_tokens > TruncateThreshold
                      THEN Append(selected_chunks, Truncated(chunk, remaining_tokens))
                      ELSE selected_chunks

select_optimal_context(chunks) ==
    PackLoop(<<>>, 0, chunks)

Truthy(v) ==
    v # None /\ v # ""

RECURSIVE ContextParts(_, _)
ContextParts(chunks, i) ==
    IF i > Len(chunks) THEN ""
    ELSE LET chunk       == chunks[i]
             source_info == "Source " \o IntToStr(i) \o " (ID: " \o chunk.source_id \o ")"
                            \o (IF Truthy(chunk.metadata.source)
                                THEN " - " \o chunk.metadata.source ELSE "")
         IN  source_info \o ":\n" \o chunk.content \o "\n"
             \o (IF i < Len(chunks) THEN "\n" ELSE "")
             \o ContextParts(chunks, i + 1)

construct_context_string(chunks) ==
    "\n" \o Rep("=", 50) \o ContextParts(chunks, 1)

calculate_confidence_score(answer, context_chunks) ==
    LET avg_relevance ==
            RDivInt(RSum([i \in 1..Len(context_chunks) |->
                              context_chunks[i].relevance_score]),
                    Len(context_chunks))
        answer_length_score == RMin(One, Rat(Len(answer), AnswerLengthNorm))
        hits == Then(Lower(answer), LAMBDA lowered :
                    Cardinality({p \in UncertaintyPhrases : Contains(lowered, p)}))
        certainty_score == RMax(Zero, RSub(One, RMulInt(UncertaintyStep, hits)))
        citation_score ==
            IF Contains(answer, "[Source:") \/ Contains(answer, "Source ")
            THEN One ELSE NoCitationScore
        factors == (IF context_chunks # <<>> THEN <<avg_relevance>> ELSE <<>>)
                   \o <<answer_length_score, certainty_score, citation_score>>
    IN  RDivInt(RSum(factors), Len(factors))

FallbackAnswer(context_chunks) ==
    "Based on the available context:\n\n"
    \o Prefix(construct_context_string(context_chunks), FallbackChars)
    \o "...\n\nI cannot provide a complete answer as the AI service is not configured."

\* a generator whose degraded mode scores the fallback answer like a real one
generate_answer_scored_fallback(has_client, context_chunks, outcome) ==
    IF ~has_client
    THEN [raised |-> FALSE, answer |-> FallbackAnswer(context_chunks),
          confidence_score |->
              calculate_confidence_score(FallbackAnswer(context_chunks), context_chunks)]
    ELSE IF outcome.raises
    THEN [raised |-> TRUE, answer |-> None, confidence_score |-> Zero]
    ELSE [raised |-> FALSE, answer |-> Strip(outcome.content),
          confidence_score |->
              calculate_confidence_score(Strip(outcome.content), context_chunks)]

\* generate_answer: (answer, confidence), or the HTTPException it raises
generate_answer(has_client, context_chunks, outcome) ==
    IF ~has_client
    THEN [raised |-> FALSE, answer |-> FallbackAnswer(context_chunks),
          confidence_score |-> FallbackConfidence]
    ELSE IF outcome.raises
    THEN [raised |-> TRUE, answer |-> None, confidence_score |-> Zero]
    ELSE [raised |-> FALSE, answer |-> Strip(outcome.content),
          confidence_score |->
              calculate_confidence_score(Strip(outcome.content), context_chunks)]

\* chunks[:n]
Take(chunks, n) ==
    SubSeq(chunks, 1, IF n < Len(chunks) THEN n ELSE Len(chunks))

\* a preview that is the whole content
ContentPreviewUncut(content) ==
    content

ContentPreview(content) ==
    IF Len(content) > PreviewChars THEN Prefix(content, PreviewChars) \o "..." ELSE content

PrepareSources(chunks) ==
    [i \in 1..Len(chunks) |->
        [id |-> chunks[i].source_id,
         content_preview |-> ContentPreview(chunks[i].content),
         metadata |-> chunks[i].metadata,
         relevance_score |-> chunks[i].relevance_score]]

\* a QueryRequest whose query has no min_length
RequestValidNoMinLength(req) ==
    /\ Len(req.query) <= QueryMaxLength
    /\ req.max_results >= MaxResultsGe
    /\ req.max_results <= MaxResultsLe

\* Field(..., min_length=1, max_length=1000) and Field(default=5, ge=1, le=20)
RequestValid(req) ==
    /\ Len(req.query) >= QueryMinLength
    /\ Len(req.query) <= QueryMaxLength
    /\ req.max_results >= MaxResultsGe
    /\ req.max_results <= MaxResultsLe

(***************************************************************************)
(* Inputs: requests, what the vector index returns, what the LLM returns   *)
(***************************************************************************)
\* at most this many hits in an index result drawn from SmallDocs
MaxSmallHits ==
    2

\* at most this many hits in an index result drawn from LargeDocs
MaxLargeHits ==
    2

\* at most this many re-ranking calls of one query get a response other than
\* DefaultEvalOutcome
MaxEvalDeviations ==
    1

NoFilter ==
    [keys |-> {}, file_type |-> None, min_score |-> Zero]

FilterParams ==
    {NoFilter,
     [keys |-> {"file_type"}, file_type |-> "pdf", min_score |-> Zero],
     [keys |-> {"min_score"}, file_type |-> None, min_score |-> <<3, 4>>],
     [keys |-> {"min_score"}, file_type |-> None, min_score |-> <<1, 5>>],
     [keys |-> {"file_type", "min_score"}, file_type |-> "pdf", min_score |-> <<3, 4>>]}

DefaultRequest ==
    [query |-> "what is ml", max_results |-> 5, filter_params |-> NoFilter,
     include_metadata |-> TRUE]

Queries ==
    {"", Rep("q", 1000), Rep("q", 1001)}

MaxResultsValues ==
    {0, 1, 21, 25}

\* the default request, and every request that differs from it in one field
Requests ==
    {DefaultRequest}
    \cup {[DefaultRequest EXCEPT !.query = q] : q \in Queries}
    \cup {[DefaultRequest EXCEPT !.max_results = m] : m \in MaxResultsValues}
    \cup {[DefaultRequest EXCEPT !.filter_params = f] : f \in FilterParams}

\* query_rag of rag.py's own app, or process_query of the backend app
Apps ==
    {"rag", "backend"}

Hit(doc, distance) ==
    [document |-> doc.document, id |-> doc.id, metadata |-> doc.metadata,
     distance |-> distance]

SmallDocs ==
    {[id |-> "doc_a", document |-> "machine learning is a subset of ai",
      metadata |-> [source |-> "a.pdf", file_type |-> "pdf"]],
     [id |-> "doc_b", document |-> "Machine learning is a subset of ai now",
      metadata |-> [source |-> "b.txt", file_type |-> "txt"]],
     [id |-> "doc_c", document |-> "machine learning is a subset of ai x y z",
      metadata |-> [source |-> None, file_type |-> "pdf"]],
     [id |-> "doc_e", document |-> "Error: disk full",
      metadata |-> [source |-> "e.pdf", file_type |-> "pdf"]],
     [id |-> "doc_s", document |-> "  short \n",
      metadata |-> [source |-> None, file_type |-> None]]}

\* squared-L2 distances (the collection's default metric): never negative
SmallDistances ==
    {<<1, 4>>, <<1, 2>>, <<3, 2>>}

Letters ==
    <<"a", "b", "c", "d", "e", "f", "g", "h", "i">>

\* nine pairwise different documents, nearest first, relevance 15/16 .. 7/16
RerankHit(i) ==
    [document |-> Rep(Letters[i], 12), id |-> "doc_" \o IntToStr(i),
     metadata |-> [source |-> "r.pdf", file_type |-> "pdf"],
     distance |-> <<i, 16>>]

RerankSizes ==
    {6, 9}

LargeDocs ==
    {[id |-> "big_1", document |-> Rep("x", 15203),
      metadata |-> [source |-> "x.pdf", file_type |-> "pdf"]],
     [id |-> "big_2", document |-> Rep("y", 15603),
      metadata |-> [source |-> "y.pdf", file_type |-> "pdf"]],
     [id |-> "big_3", document |-> Rep("z", 15599),
      metadata |-> [source |-> "z.pdf", file_type |-> "pdf"]],
     [id |-> "big_4", document |-> Rep("w", 20000),
      metadata |-> [source |-> "w.pdf", file_type |-> "pdf"]],
     [id |-> "big_5", document |-> Rep("v", 1000),
      metadata |-> [source |-> "v.pdf", file_type |-> "pdf"]]}

LargeDistances ==
    {<<1, 8>>}

\* sequences of at most n hits over docs and distances: no document twice,
\* nearest first, as the index returns them
HitLists(docs, distances, n) ==
    LET hits == {Hit(d, x) : d \in docs, x \in distances}
    IN  {s \in UNION {[1..k -> hits] : k \in 0..n} :
            /\ \A i, j \in 1..Len(s) : i < j => s[i].id # s[j].id
            /\ \A i \in 1..(Len(s) - 1) : RLe(s[i].distance, s[i + 1].distance)}

\* results over SmallDocs: no two hits at the same distance
SmallResults ==
    {r \in HitLists(SmallDocs, SmallDistances, MaxSmallHits) :
        \A i, j \in 1..Len(r) : i < j => r[i].distance # r[j].distance}

\* three hits: the second shares 7 of 10 words with the first, the third 7 of 8
NearDuplicateResult ==
    <<Hit(CHOOSE d \in SmallDocs : d.id = "doc_a", <<1, 8>>),
      Hit(CHOOSE d \in SmallDocs : d.id = "doc_c", <<1, 4>>),
      Hit(CHOOSE d \in SmallDocs : d.id = "doc_b", <<1, 2>>)>>

\* three hits whose relevance 1.0 - distance is rounded: 0.30000000000000004,
\* 0.19999999999999996 and 0.09999999999999998
RoundedResult ==
    <<Hit(CHOOSE d \in SmallDocs : d.id = "doc_a", <<7, 10>>),
      Hit(CHOOSE d \in SmallDocs : d.id = "doc_c", <<4, 5>>),
      Hit(CHOOSE d \in SmallDocs : d.id = "doc_b", <<9, 10>>)>>

\* three hits: after the first, 100 estimated tokens are left, which the second
\* exceeds and the third does not
SmallAfterLargeResult ==
    <<Hit(CHOOSE d \in LargeDocs : d.id = "big_2", <<1, 8>>),
      Hit(CHOOSE d \in LargeDocs : d.id = "big_1", <<1, 8>>),
      Hit(CHOOSE d \in SmallDocs : d.id = "doc_a", <<1, 4>>)>>

\* db.query(n_results=top_k_retrieval): at most top_k_retrieval hits
IndexResults ==
    {r \in SmallResults \cup {NearDuplicateResult, RoundedResult, SmallAfterLargeResult}
            \cup HitLists(LargeDocs, LargeDistances, MaxLargeHits)
            \cup {[i \in 1..n |-> RerankHit(i)] : n \in RerankSizes} :
        Len(r) <= top_k_retrieval}

\* db.query returns a result, or raises
IndexOutcomes ==
    {[ok |-> TRUE, hits |-> r] : r \in IndexResults} \cup {[ok |-> FALSE, hits |-> <<>>]}

\* the outcomes a request is run against: every one for a request with the default
\* query and no filter, those over SmallDocs and the failure for the others
IndexOutcomesFor(req) ==
    {o \in IndexOutcomes :
        \/ ~o.ok
        \/ o.hits \in SmallResults \cup {RoundedResult}
        \/ (req.query = DefaultRequest.query /\ req.filter_params = NoFilter)}

\* what client.chat.completions.create does for a re-ranking prompt
DefaultEvalOutcome ==
    [raises |-> FALSE, content |-> "{\"score\": 0.5, \"reason\": \"partly relevant\"}"]

EvalOutcomes ==
    {DefaultEvalOutcome,
     [raises |-> TRUE, content |-> ""],
     [raises |-> FALSE, content |-> "Relevant."],
     [raises |-> FALSE, content |-> "Score: high"],
     [raises |-> FALSE, content |-> "Score: n.a."],
     [raises |-> FALSE, content |-> "Score: 1"],
     [raises |-> FALSE, content |-> "Score: 8 out of 10"]}

\* what client.chat.completions.create does for the answer prompt
NoOutcome ==
    [raises |-> FALSE, content |-> ""]

GenOutcomes ==
    {[raises |-> TRUE, content |-> ""],
     [raises |-> FALSE, content |-> " ML is a subset of AI. [Source: doc_a]\n"],
     [raises |-> FALSE, content |->
         "I don't know: it is unclear, there is insufficient information and not enough context."],
     [raises |-> FALSE, content |-> Rep("a", 200)]}

(***************************************************************************)
(* One query through the pipeline                                          *)
(***************************************************************************)
VARIABLES
    app,               \* the app that received the request
    request,           \* the QueryRequest sent
    client,            \* TRUE iff the module-level OpenAI client is not None
    pc,                \* the position of the handler
    semantic_results,  \* what db.query did
    context_chunks,    \* the chunks built from the hits
    quality_chunks,    \* _apply_advanced_filtering: the list after the quality filter
    user_chunks,       \* _apply_advanced_filtering: the list handed to _ensure_diversity
    filtered_chunks,   \* what _apply_advanced_filtering returned
    rerank_chunks,     \* the chunks inside _llm_rerank_contexts
    rerank_i,          \* the candidate the re-ranking loop is at
    eval_log,          \* what each re-ranking LLM call did, in call order
    reranked_chunks,   \* what _llm_rerank_contexts returned
    final_chunks,      \* what _select_optimal_context returned
    index_calls,       \* number of db.query calls
    gen_calls,         \* number of answer-generation LLM calls
    result,            \* what the orchestrator built
    response,          \* what the client receives
    query_log,         \* the rows of the query log
    held_chunks,       \* ContextChunk objects a caller keeps and passes to the stages again
    run_outputs,       \* what each pass over held_chunks returned, in order
    cc_text,           \* create_chunks: text
    cc_config,         \* create_chunks: config
    cc_start,          \* create_chunks: start
    cc_chunks,         \* create_chunks: chunks
    cc_pc,             \* create_chunks: position
    ev_pc,             \* evaluate_response: position
    ev_responses,      \* what each evaluation LLM call did, in call order
    ev_attempt,        \* _get_llm_evaluation: attempt
    ev_calls,          \* number of evaluation LLM calls made
    ev_data,           \* _get_llm_evaluation: what it returned or raised
    ev_result,         \* what evaluate_response returned
    cq_heap,           \* two queries at once: the ContextChunk objects alive, by reference
    cq_state,          \* two queries at once: the locals of each query's call
    ds_instance,       \* DatabaseSingleton._instance: None or the instance
    ds_lock,           \* DatabaseSingleton._lock: 0 or the thread that holds it
    ds_built,          \* number of ChromaDB instances constructed
    ds_pc,             \* get_instance: the position of each thread
    ds_result,         \* get_instance: what each thread's call returned or raised
    dl_request,        \* DELETE /documents/{id}: the document_id and the current user
    dl_rows,           \* the rows of the documents table
    dl_index,          \* the chunk ids held by the vector index
    dl_document,       \* delete_document: document
    dl_pc,             \* delete_document: position
    dl_response,       \* what the endpoint answered
    rl_storage,        \* auth._rate_limit_storage: identifier -> list of timestamps
    rl_now,            \* the clock read by datetime.utcnow().timestamp()
    rl_config,         \* the limit and the window of the calls
    rl_log,            \* the check_rate_limit calls made: identifier, now, returned
    ak_request,        \* the request: its bearer credentials, its client host, its time
    ak_keys,           \* the rows of the api_keys table, by id
    ak_before,         \* the api_keys table when the request arrived
    ak_storage,        \* auth._rate_limit_storage during the request
    ak_api_key,        \* what verify_api_key returned: <<>> for None, <<key>> for a key
    ak_pc,             \* the position of the request in the dependencies
    ak_result,         \* what get_current_user_or_api_key returned or raised
    ak_queried         \* whether the database answered, for each dependency run

pipeline_vars ==
    <<app, request, client, pc, semantic_results, context_chunks, quality_chunks,
      user_chunks, filtered_chunks, rerank_chunks, rerank_i, eval_log, reranked_chunks,
      final_chunks, index_calls, gen_calls, result, response, query_log>>

rerun_vars ==
    <<held_chunks, run_outputs>>

chunker_vars ==
    <<cc_text, cc_config, cc_start, cc_chunks, cc_pc>>

evaluation_vars ==
    <<ev_pc, ev_responses, ev_attempt, ev_calls, ev_data, ev_result>>

concurrent_vars ==
    <<cq_heap, cq_state>>

singleton_vars ==
    <<ds_instance, ds_lock, ds_built, ds_pc, ds_result>>

delete_vars ==
    <<dl_request, dl_rows, dl_index, dl_document, dl_pc, dl_response>>

ratelimit_vars ==
    <<rl_storage, rl_now, rl_config, rl_log>>

apikey_vars ==
    <<ak_request, ak_keys, ak_before, ak_storage, ak_api_key, ak_pc, ak_result,
      ak_queried>>

\* the state of the operations of the services around the pipeline
service_vars ==
    <<concurrent_vars, singleton_vars, delete_vars, ratelimit_vars, apikey_vars>>

\* the state of the operations that are not part of a query
outside_pipeline ==
    <<rerun_vars, chunker_vars, evaluation_vars, service_vars>>

\* the state of the pipeline and of the calls of its functions on their own
core_vars ==
    <<pipeline_vars, rerun_vars, chunker_vars, evaluation_vars>>

outside_concurrent ==
    <<core_vars, singleton_vars, delete_vars, ratelimit_vars, apikey_vars>>

outside_singleton ==
    <<core_vars, concurrent_vars, delete_vars, ratelimit_vars, apikey_vars>>

outside_delete ==
    <<core_vars, concurrent_vars, singleton_vars, ratelimit_vars, apikey_vars>>

outside_ratelimit ==
    <<core_vars, concurrent_vars, singleton_vars, delete_vars, apikey_vars>>

outside_apikey ==
    <<core_vars, concurrent_vars, singleton_vars, delete_vars, ratelimit_vars>>

vars ==
    <<pipeline_vars, outside_pipeline>>

\* no pass over held chunks is under way
RerunIdle ==
    /\ held_chunks = <<>>
    /\ run_outputs = <<>>

\* no create_chunks call is under way
ChunkerIdle ==
    /\ cc_text = ""
    /\ cc_config = [size |-> 1000, overlap |-> 200]
    /\ cc_start = 0
    /\ cc_chunks = <<>>
    /\ cc_pc = "idle"

\* no evaluate_response call is under way
EvaluationIdle ==
    /\ ev_pc = "idle"
    /\ ev_responses = <<>>
    /\ ev_attempt = 0
    /\ ev_calls = 0
    /\ ev_data = [raised |-> None, items |-> <<>>]
    /\ ev_result = [raised |-> FALSE, returned |-> FALSE]

\* no two queries are under way at once
ConcurrentIdle ==
    /\ cq_heap = <<>>
    /\ cq_state = <<>>

\* no thread has called get_instance
SingletonIdle ==
    /\ ds_instance = None
    /\ ds_lock = 0
    /\ ds_built = 0
    /\ ds_pc = <<>>
    /\ ds_result = <<>>

\* no DELETE request is under way
DeleteIdle ==
    /\ dl_request = [document_id |-> 0, current_user |-> None]
    /\ dl_rows = {}
    /\ dl_index = {}
    /\ dl_document = None
    /\ dl_pc = "idle"
    /\ dl_response = [status |-> 0]

\* no rate-limited request was made
RatelimitIdle ==
    /\ rl_storage = <<>>
    /\ rl_now = 0
    /\ rl_config = [limit |-> 0, window |-> 0]
    /\ rl_log = <<>>

\* no request with bearer credentials is under way
ApikeyIdle ==
    /\ ak_request = [authorization |-> "", host |-> "", now |-> 0]
    /\ ak_keys = <<>>
    /\ ak_before = <<>>
    /\ ak_storage = <<>>
    /\ ak_api_key = <<>>
    /\ ak_pc = "idle"
    /\ ak_result = [status |-> 0]
    /\ ak_queried = <<>>

ServicesIdle ==
    ConcurrentIdle /\ SingletonIdle /\ DeleteIdle /\ RatelimitIdle /\ ApikeyIdle

AroundConcurrent ==
    RerunIdle /\ ChunkerIdle /\ EvaluationIdle /\ SingletonIdle /\ DeleteIdle /\ RatelimitIdle /\ ApikeyIdle

AroundSingleton ==
    RerunIdle /\ ChunkerIdle /\ EvaluationIdle /\ ConcurrentIdle /\ DeleteIdle /\ RatelimitIdle /\ ApikeyIdle

AroundDelete ==
    RerunIdle /\ ChunkerIdle /\ EvaluationIdle /\ ConcurrentIdle /\ SingletonIdle /\ RatelimitIdle /\ ApikeyIdle

AroundRatelimit ==
    RerunIdle /\ ChunkerIdle /\ EvaluationIdle /\ ConcurrentIdle /\ SingletonIdle /\ DeleteIdle /\ ApikeyIdle

AroundApikey ==
    RerunIdle /\ ChunkerIdle /\ EvaluationIdle /\ ConcurrentIdle /\ SingletonIdle /\ DeleteIdle /\ RatelimitIdle

NoResult ==
    [answer |-> None, sources |-> <<>>, confidence_score |-> Zero, sources_count |-> 0]

NoResponse ==
    [status |-> 0]

Init ==
    /\ app \in Apps
    /\ request \in Requests
    /\ client \in BOOLEAN
    /\ pc = "received"
    /\ semantic_results = [ok |-> TRUE, hits |-> <<>>]
    /\ context_chunks = <<>>
    /\ quality_chunks = <<>>
    /\ user_chunks = <<>>
    /\ filtered_chunks = <<>>
    /\ rerank_chunks = <<>>
    /\ rerank_i = 0
    /\ eval_log = <<>>
    /\ reranked_chunks = <<>>
    /\ final_chunks = <<>>
    /\ index_calls = 0
    /\ gen_calls = 0
    /\ result = NoResult
    /\ response = NoResponse
    /\ query_log = <<>>
    /\ RerunIdle
    /\ ChunkerIdle
    /\ EvaluationIdle
    /\ ServicesIdle

\* FastAPI validates the body against QueryRequest before the handler runs
Validate ==
    /\ pc = "received"
    /\ IF RequestValid(request)
       THEN pc' = "retrieving" /\ UNCHANGED response
       ELSE pc' = "rejected" /\ response' = [status |-> 422, detail |-> "validation error"]
    /\ UNCHANGED <<outside_pipeline, app, request, client, semantic_results, context_chunks,
                   quality_chunks, user_chunks, filtered_chunks, rerank_chunks, rerank_i, eval_log, reranked_chunks,
                   final_chunks, index_calls, gen_calls, result, query_log>>

\* an HTTPException(500) leaves the pipeline: query_rag re-raises it as it is;
\* query_documents turns it into "Query processing failed" and process_query
\* goes on to log the failure
\* a handler that goes on to the generator after a failed stage
RaiseAndGoOn(detail) ==
    pc' = "packed" /\ UNCHANGED response

Raise(detail) ==
    IF app = "rag"
    THEN pc' = "failed" /\ response' = [status |-> 500, detail |-> detail]
    ELSE pc' = "logging_failure" /\ UNCHANGED response

\* retrieve_context, up to the chunks built from the hits
Retrieve ==
    /\ pc = "retrieving"
    /\ \E r \in IndexOutcomesFor(request) :
          /\ semantic_results' = r
          /\ IF r.ok
             THEN /\ context_chunks' = BuildChunks(r.hits)
                  /\ pc' = "filtering"
                  /\ UNCHANGED response
             ELSE /\ Raise("Context retrieval failed")
                  /\ UNCHANGED context_chunks
    /\ index_calls' = index_calls + 1
    /\ UNCHANGED <<outside_pipeline, app, request, client, quality_chunks, user_chunks, filtered_chunks, rerank_chunks, rerank_i,
                   eval_log, reranked_chunks, final_chunks, gen_calls, result, query_log>>

ApplyFilter ==
    /\ pc = "filtering"
    /\ quality_chunks' = quality_filter(context_chunks)
    /\ user_chunks' = user_filter(quality_chunks', request.filter_params)
    /\ filtered_chunks' = ensure_diversity(user_chunks')
    /\ pc' = "reranking"
    /\ UNCHANGED <<outside_pipeline, app, request, client, semantic_results,
                   context_chunks, rerank_chunks, rerank_i, eval_log, reranked_chunks,
                   final_chunks, index_calls, gen_calls, result, response, query_log>>

\* _llm_rerank_contexts up to its loop: the two early returns
RerankStart ==
    /\ pc = "reranking"
    /\ IF filtered_chunks = <<>>
       THEN /\ reranked_chunks' = filtered_chunks
            /\ pc' = "packing"
            /\ UNCHANGED <<rerank_chunks, rerank_i>>
       ELSE IF Len(filtered_chunks) <= final_context_chunks
       THEN /\ reranked_chunks' = SortByScore(filtered_chunks)
            /\ pc' = "packing"
            /\ UNCHANGED <<rerank_chunks, rerank_i>>
       ELSE /\ rerank_chunks' = filtered_chunks
            /\ rerank_i' = 1
            /\ pc' = "evaluating"
            /\ UNCHANGED reranked_chunks
    /\ UNCHANGED <<outside_pipeline, app, request, client, semantic_results, context_chunks,
                   quality_chunks, user_chunks, filtered_chunks, eval_log, final_chunks, index_calls, gen_calls,
                   result, response, query_log>>

Deviations(log) ==
    Cardinality({k \in 1..Len(log) : log[k] # DefaultEvalOutcome})

\* a loop over chunks[-min(8, len(chunks)):], the last chunks instead of the first
RerankEvaluateFromEnd ==
    /\ pc = "evaluating"
    /\ rerank_i <= RerankCandidateCount(rerank_chunks)
    /\ IF ~client
       THEN UNCHANGED <<rerank_chunks, eval_log>>
       ELSE \E outcome \in EvalOutcomes :
               /\ Deviations(Append(eval_log, outcome)) <= MaxEvalDeviations
               /\ eval_log' = Append(eval_log, outcome)
               /\ rerank_chunks' =
                      [rerank_chunks EXCEPT ![Len(rerank_chunks) - rerank_i + 1] =
                                                EvaluateChunk(@, outcome)]
    /\ rerank_i' = rerank_i + 1
    /\ UNCHANGED <<outside_pipeline, app, request, client, pc, semantic_results, context_chunks,
                   quality_chunks, user_chunks, filtered_chunks, reranked_chunks, final_chunks, index_calls,
                   gen_calls, result, response, query_log>>

\* one pass of the loop over rerank_candidates
RerankEvaluate ==
    /\ pc = "evaluating"
    /\ rerank_i <= RerankCandidateCount(rerank_chunks)
    /\ IF ~client
       THEN UNCHANGED <<rerank_chunks, eval_log>>
       ELSE \E outcome \in EvalOutcomes :
               /\ Deviations(Append(eval_log, outcome)) <= MaxEvalDeviations
               /\ eval_log' = Append(eval_log, outcome)
               /\ rerank_chunks' =
                      [rerank_chunks EXCEPT ![rerank_i] = EvaluateChunk(@, outcome)]
    /\ rerank_i' = rerank_i + 1
    /\ UNCHANGED <<outside_pipeline, app, request, client, pc, semantic_results, context_chunks,
                   quality_chunks, user_chunks, filtered_chunks, reranked_chunks, final_chunks, index_calls,
                   gen_calls, result, response, query_log>>

\* the return after the loop
RerankFinish ==
    /\ pc = "evaluating"
    /\ rerank_i > RerankCandidateCount(rerank_chunks)
    /\ reranked_chunks' = SortByScore(rerank_chunks)
    /\ pc' = "packing"
    /\ UNCHANGED <<outside_pipeline, app, request, client, semantic_results, context_chunks,
                   quality_chunks, user_chunks, filtered_chunks, rerank_chunks, rerank_i, eval_log, final_chunks,
                   index_calls, gen_calls, result, response, query_log>>

Pack ==
    /\ pc = "packing"
    /\ final_chunks' = select_optimal_context(reranked_chunks)
    /\ pc' = "packed"
    /\ UNCHANGED <<outside_pipeline, app, request, client, semantic_results, context_chunks,
                   quality_chunks, user_chunks, filtered_chunks, rerank_chunks, rerank_i, eval_log, reranked_chunks,
                   index_calls, gen_calls, result, response, query_log>>

OkResponse(res) ==
    [status |-> 200, answer |-> res.answer, sources |-> res.sources,
     confidence_score |-> res.confidence_score]

\* the orchestrator has its result: query_rag returns it, process_query logs it first
Return(res) ==
    /\ result' = res
    /\ IF app = "rag"
       THEN pc' = "done" /\ response' = OkResponse(res)
       ELSE pc' = "logging" /\ UNCHANGED response

\* an orchestrator without the empty-context fast path: it generates from no chunks
NoContextGenerates ==
    /\ pc = "packed"
    /\ final_chunks = <<>>
    /\ \E outcome \in IF client THEN GenOutcomes ELSE {NoOutcome} :
          LET g == generate_answer(client, <<>>, outcome)
          IN  IF g.raised
              THEN Raise("Answer generation failed") /\ UNCHANGED result
              ELSE Return([answer |-> g.answer, sources |-> <<>>,
                           confidence_score |-> g.confidence_score,
                           sources_count |-> 0])
    /\ gen_calls' = IF client THEN gen_calls + 1 ELSE gen_calls
    /\ UNCHANGED <<outside_pipeline, app, request, client, semantic_results, context_chunks,
                   quality_chunks, user_chunks, filtered_chunks, rerank_chunks, rerank_i, eval_log, reranked_chunks,
                   final_chunks, index_calls, query_log>>

\* if not context_chunks: the canned answer
NoContext ==
    /\ pc = "packed"
    /\ final_chunks = <<>>
    /\ Return([answer |-> NoContextAnswer, sources |-> <<>>,
               confidence_score |-> Zero, sources_count |-> 0])
    /\ UNCHANGED <<outside_pipeline, app, request, client, semantic_results, context_chunks,
                   quality_chunks, user_chunks, filtered_chunks, rerank_chunks, rerank_i, eval_log, reranked_chunks,
                   final_chunks, index_calls, gen_calls, query_log>>

\* generate_answer on context_chunks[:max_results], and the sources
Generate ==
    /\ pc = "packed"
    /\ final_chunks # <<>>
    /\ \E outcome \in IF client THEN GenOutcomes ELSE {NoOutcome} :
          LET used == Take(final_chunks, request.max_results)
              g    == generate_answer(client, used, outcome)
          IN  IF g.raised
              THEN Raise("Answer generation failed") /\ UNCHANGED result
              ELSE Return([answer |-> g.answer, sources |-> PrepareSources(used),
                           confidence_score |-> g.confidence_score,
                           sources_count |-> Len(used)])
    /\ gen_calls' = IF client THEN gen_calls + 1 ELSE gen_calls
    /\ UNCHANGED <<outside_pipeline, app, request, client, semantic_results, context_chunks,
                   quality_chunks, user_chunks, filtered_chunks, rerank_chunks, rerank_i, eval_log, reranked_chunks,
                   final_chunks, index_calls, query_log>>

\* crud.create_query_log: the row is there iff the commit went through
create_query_log(log, committed, status, response_text) ==
    IF committed
    THEN Append(log, [status |-> status, response_text |-> response_text])
    ELSE log

\* process_query after query_documents returned
LogCompleted ==
    /\ pc = "logging"
    /\ \E committed \in BOOLEAN :
          query_log' = create_query_log(query_log, committed, "completed", result.answer)
    /\ response' = OkResponse(result)
    /\ pc' = "done"
    /\ UNCHANGED <<outside_pipeline, app, request, client, semantic_results, context_chunks,
                   quality_chunks, user_chunks, filtered_chunks, rerank_chunks, rerank_i, eval_log, reranked_chunks,
                   final_chunks, index_calls, gen_calls, result>>

\* an except branch that leaves create_query_log's status at its default
LogFailedDefaultStatus ==
    /\ pc = "logging_failure"
    /\ \E committed \in BOOLEAN :
          query_log' = create_query_log(query_log, committed, "completed", None)
    /\ response' = [status |-> 500, detail |-> "Query processing failed"]
    /\ pc' = "failed"
    /\ UNCHANGED <<outside_pipeline, app, request, client, semantic_results, context_chunks,
                   quality_chunks, user_chunks, filtered_chunks, rerank_chunks, rerank_i, eval_log, reranked_chunks,
                   final_chunks, index_calls, gen_calls, result>>

\* process_query's except branch
LogFailed ==
    /\ pc = "logging_failure"
    /\ \E committed \in BOOLEAN :
          query_log' = create_query_log(query_log, committed, "failed", None)
    /\ response' = [status |-> 500, detail |-> "Query processing failed"]
    /\ pc' = "failed"
    /\ UNCHANGED <<outside_pipeline, app, request, client, semantic_results, context_chunks,
                   quality_chunks, user_chunks, filtered_chunks, rerank_chunks, rerank_i, eval_log, reranked_chunks,
                   final_chunks, index_calls, gen_calls, result>>

Next ==
    \/ Validate
    \/ Retrieve
    \/ ApplyFilter
    \/ RerankStart
    \/ RerankEvaluate
    \/ RerankFinish
    \/ Pack
    \/ NoContext
    \/ Generate
    \/ LogCompleted
    \/ LogFailed

Spec ==
    Init /\ [][Next]_vars

(***************************************************************************)
(* The stages run again on chunks the caller holds, with no LLM client:    *)
(* _apply_advanced_filtering, _llm_rerank_contexts, _select_optimal_context *)
(* and generate_answer take and return the caller's ContextChunk objects,  *)
(* and the packer truncates chunk.content in place.                        *)
(***************************************************************************)
\* at most this many chunks are held
MaxHeld ==
    3

\* at most this many passes over the held chunks
MaxRuns ==
    2

\* no query is under way
PipelineIdle ==
    /\ app = "rag"
    /\ request = DefaultRequest
    /\ client = FALSE
    /\ pc = "idle"
    /\ semantic_results = [ok |-> TRUE, hits |-> <<>>]
    /\ context_chunks = <<>>
    /\ quality_chunks = <<>>
    /\ user_chunks = <<>>
    /\ filtered_chunks = <<>>
    /\ rerank_chunks = <<>>
    /\ rerank_i = 0
    /\ eval_log = <<>>
    /\ reranked_chunks = <<>>
    /\ final_chunks = <<>>
    /\ index_calls = 0
    /\ gen_calls = 0
    /\ result = NoResult
    /\ response = NoResponse
    /\ query_log = <<>>

HeldDocs ==
    {ContextChunk("alpha beta gamma delta", "h_a",
                  [source |-> "a.pdf", file_type |-> "pdf"], <<7, 8>>),
     ContextChunk("alpha beta gamma delta" \o Rep(" ", 16000) \o "eps zeta eta theta", "h_b",
                  [source |-> "b.pdf", file_type |-> "pdf"], <<3, 4>>),
     ContextChunk(Rep("x", 15203), "h_c",
                  [source |-> "c.pdf", file_type |-> "pdf"], <<1, 2>>),
     ContextChunk("nothing in common with the others", "h_d",
                  [source |-> None, file_type |-> "txt"], <<5, 8>>),
     ContextChunk("Error: disk full", "h_e",
                  [source |-> "e.log", file_type |-> "txt"], <<15, 16>>)}

\* the lists of at most MaxHeld different chunks, in any order
HeldChunkLists ==
    {s \in UNION {[1..k -> HeldDocs] : k \in 0..MaxHeld} :
        \A i, j \in 1..Len(s) : i < j => s[i].source_id # s[j].source_id}

\* _llm_rerank_contexts with client None: the early returns, or a loop that
\* skips every candidate, and the sort
rerank_without_client(chunks) ==
    IF chunks = <<>> THEN chunks ELSE SortByScore(chunks)

\* chunk.content = truncated_content + "...": the held object is the selected one
TruncateInPlace(held, selected_chunks) ==
    [i \in 1..Len(held) |->
        IF \E j \in 1..Len(selected_chunks) :
               selected_chunks[j].source_id = held[i].source_id
        THEN selected_chunks[CHOOSE j \in 1..Len(selected_chunks) :
                                 selected_chunks[j].source_id = held[i].source_id]
        ELSE held[i]]

\* what one pass returns: the packed chunks, the answer and its confidence
RunOutput(held) ==
    LET packed == select_optimal_context(
                      rerank_without_client(apply_advanced_filtering(held, NoFilter)))
        used   == Take(packed, DefaultRequest.max_results)
        g      == generate_answer(FALSE, used, NoOutcome)
    IN  IF packed = <<>>
        THEN [chunks |-> packed, answer |-> NoContextAnswer, confidence_score |-> Zero]
        ELSE [chunks |-> packed, answer |-> g.answer,
              confidence_score |-> g.confidence_score]

InitRerun ==
    /\ held_chunks \in HeldChunkLists
    /\ run_outputs = <<>>
    /\ PipelineIdle
    /\ ChunkerIdle
    /\ EvaluationIdle
    /\ ServicesIdle

\* one pass of filter, re-rank, pack and generate over the held chunks
RunStages ==
    /\ Len(run_outputs) < MaxRuns
    /\ run_outputs' = Append(run_outputs, RunOutput(held_chunks))
    /\ held_chunks' = TruncateInPlace(held_chunks, RunOutput(held_chunks).chunks)
    /\ UNCHANGED <<pipeline_vars, chunker_vars, evaluation_vars, service_vars>>

NextRerun ==
    RunStages

SpecRerun ==
    InitRerun /\ [][NextRerun]_vars

(***************************************************************************)
(* create_chunks (src/document_processor.py): one call, one action per     *)
(* pass of its while loop                                                  *)
(***************************************************************************)
\* ChunkConfig has no validators: size and overlap are any int.  The calls
\* looked at here have a size and an overlap that are not negative.
ChunkSizes ==
    {0, 1, 3, 5, 10}

ChunkOverlaps ==
    {0, 2, 5, 10}

ChunkTexts ==
    {"", "Short", "   ", "  x  y  ", "This is a test text for chunking"}

\* an index of a slice of a text of n characters: a negative one counts from the
\* end, and both ends are clipped to 0..n
SliceIndex(i, n) ==
    IF i < 0 THEN (IF i + n < 0 THEN 0 ELSE i + n)
    ELSE IF i > n THEN n ELSE i

\* s[a:b]
Slice(s, a, b) ==
    SubSeq(s, SliceIndex(a, Len(s)) + 1, SliceIndex(b, Len(s)))

InitChunks ==
    /\ cc_text \in ChunkTexts
    /\ cc_config \in [size : ChunkSizes, overlap : ChunkOverlaps]
    /\ cc_start = 0
    /\ cc_chunks = <<>>
    /\ cc_pc = "called"
    /\ PipelineIdle
    /\ RerunIdle
    /\ EvaluationIdle
    /\ ServicesIdle

\* if not text: return []; else the locals of the loop
CreateChunksEnter ==
    /\ cc_pc = "called"
    /\ cc_pc' = IF cc_text = "" THEN "returned" ELSE "loop"
    /\ UNCHANGED <<cc_text, cc_config, cc_start, cc_chunks>>
    /\ UNCHANGED <<pipeline_vars, rerun_vars, evaluation_vars, service_vars>>

\* while start < text_length
CreateChunksTest ==
    /\ cc_pc = "loop"
    /\ cc_pc' = IF cc_start < Len(cc_text) THEN "body" ELSE "returned"
    /\ UNCHANGED <<cc_text, cc_config, cc_start, cc_chunks>>
    /\ UNCHANGED <<pipeline_vars, rerun_vars, evaluation_vars, service_vars>>

\* one pass of the body of the while loop
CreateChunksLoop ==
    /\ cc_pc = "body"
    /\ LET text_length == Len(cc_text)
           end         == IF cc_start + cc_config.size < text_length
                          THEN cc_start + cc_config.size ELSE text_length
           chunk       == Slice(cc_text, cc_start, end)
       IN  /\ cc_chunks' = IF Strip(chunk) # "" THEN Append(cc_chunks, chunk)
                           ELSE cc_chunks
           /\ IF end >= text_length
              THEN cc_pc' = "returned" /\ UNCHANGED cc_start
              ELSE /\ cc_start' = IF cc_config.overlap >= cc_config.size THEN end
                                  ELSE cc_start + cc_config.size - cc_config.overlap
                   /\ cc_pc' = "loop"
    /\ UNCHANGED <<cc_text, cc_config>>
    /\ UNCHANGED <<pipeline_vars, rerun_vars, evaluation_vars, service_vars>>

NextChunks ==
    \/ CreateChunksEnter
    \/ CreateChunksTest
    \/ CreateChunksLoop

SpecChunks ==
    InitChunks /\ [][NextChunks]_vars

\* the interpreter runs the call on: a step that can change the state is taken
SpecChunksFair ==
    SpecChunks /\ WF_vars(NextChunks)

(***************************************************************************)
(* EvaluationService.evaluate_response and _get_llm_evaluation              *)
(* (src/backend/evaluation.py): one call, one action per LLM call          *)
(***************************************************************************)
max_retries ==
    3

FallbackScore ==
    <<5, 2>>

MaxScore ==
    5

\* 1.96, the 95% quantile
NormalQuantile ==
    <<49, 25>>

\* the number a JSON literal n/d, written in lowest terms, is read as
Num(n, d) ==
    [t |-> "num", v |-> <<n, d>>]

Str(text) ==
    [t |-> "str", v |-> text]

ScoreFields ==
    {"relevance_score", "accuracy_score", "clarity_score", "completeness_score"}

RequiredFields ==
    ScoreFields \cup {"reasoning", "confidence"}

\* the JSON object of an evaluation, as text and as json.loads reads it
EvaluationJson(rel, acc, cla, com, conf) ==
    [text |-> "{\"relevance_score\": " \o rel.text \o ", \"accuracy_score\": " \o acc.text
              \o ", \"clarity_score\": " \o cla.text \o ", \"completeness_score\": " \o com.text
              \o ", \"reasoning\": \"sound\", \"confidence\": " \o conf.text \o "}",
     value |-> [kind |-> "dict",
                items |-> [f \in RequiredFields |->
                              CASE f = "relevance_score" -> rel.value
                                [] f = "accuracy_score" -> acc.value
                                [] f = "clarity_score" -> cla.value
                                [] f = "completeness_score" -> com.value
                                [] f = "reasoning" -> Str("sound")
                                [] f = "confidence" -> conf.value]]]

\* a JSON number or string literal, as text and as json.loads reads it
Literal(text, value) ==
    [text |-> text, value |-> value]

Four ==
    Literal("4", Num(4, 1))

Half ==
    Literal("0.5", Num(1, 2))

GoodJson ==
    EvaluationJson(Four, Four, Four, Four, Half)

SpreadJson ==
    EvaluationJson(Literal("3", Num(3, 1)), Literal("5", Num(5, 1)),
                   Literal("3", Num(3, 1)), Literal("5", Num(5, 1)), Half)

\* scores whose mean, the double 4.375, lies halfway between 4.37 and 4.38 and
\* whose standard deviation is the rounded root of 11/64
UnevenJson ==
    EvaluationJson(Literal("4.5", Num(9, 2)), Four, Four, Literal("5", Num(5, 1)), Half)

\* the reply of the fixture mock_openai_response of test_evaluation_system.py
FixtureJson ==
    EvaluationJson(Literal("4.2", Num(21, 5)), Literal("4.0", Num(4, 1)),
                   Literal("4.5", Num(9, 2)), Literal("3.8", Num(19, 5)),
                   Literal("0.85", Num(17, 20)))

\* the scores and the confidence of test_calculate_confidence_interval: their
\* mean is the double next above 4.025
CloseJson ==
    EvaluationJson(Literal("4.0", Num(4, 1)), Literal("4.2", Num(21, 5)),
                   Literal("3.8", Num(19, 5)), Literal("4.1", Num(41, 10)),
                   Literal("0.8", Num(4, 5)))

OutOfRangeJson ==
    EvaluationJson(Literal("6", Num(6, 1)), Four, Four, Four, Half)

NegativeJson ==
    EvaluationJson(Four, Four, Four, Literal("-1", Num(-1, 1)), Half)

TextScoreJson ==
    EvaluationJson(Literal("\"high\"", Str("high")), Four, Four, Four, Half)

TextConfidenceJson ==
    EvaluationJson(Four, Four, Four, Four, Literal("\"high\"", Str("high")))

MissingFieldsJson ==
    [text |-> "{\"relevance_score\": 4}",
     value |-> [kind |-> "dict", items |-> [f \in {"relevance_score"} |-> Num(4, 1)]]]

ListJson ==
    [text |-> "[4, 4, 4, 4]", value |-> [kind |-> "list", items |-> <<>>]]

JsonDocuments ==
    {GoodJson, SpreadJson, UnevenJson, FixtureJson, CloseJson, OutOfRangeJson,
     NegativeJson, TextScoreJson, TextConfidenceJson, MissingFieldsJson, ListJson}

\* the white space json.loads skips around a document: space, \n, \r and \t
IsJsonSpace(c) ==
    c \in {" ", "\n", "\r", "\t"}

\* the text between the white space json.loads skips
JsonStrip(s) ==
    LET n == Len(s)
    IN  IF \A i \in 1..n : IsJsonSpace(Ch(s, i)) THEN ""
        ELSE LET lead  == CHOOSE k \in 0..(n - 1) :
                              /\ ~IsJsonSpace(Ch(s, k + 1))
                              /\ \A j \in 1..k : IsJsonSpace(Ch(s, j))
                 trail == CHOOSE k \in 0..(n - 1) :
                              /\ ~IsJsonSpace(Ch(s, n - k))
                              /\ \A j \in (n - k + 1)..n : IsJsonSpace(Ch(s, j))
             IN  SubSeq(s, lead + 1, n - trail)

\* json.loads: the value of a known document, the white space of JSON around it
\* skipped, or a JSONDecodeError
json_loads(text) ==
    IF \E doc \in JsonDocuments : doc.text = JsonStrip(text)
    THEN [ok |-> TRUE,
          value |-> (CHOOSE doc \in JsonDocuments : doc.text = JsonStrip(text)).value]
    ELSE [ok |-> FALSE, value |-> [kind |-> "none", items |-> <<>>]]

\* s[a:-b]
SliceFromTo(s, a, b) ==
    SubSeq(s, a + 1, Len(s) - b)

\* the three backquotes of a Markdown fence; a TLA+ string cannot hold a
\* backquote, so each is written as a tilde
Fence ==
    "~~~"

\* the Markdown fence around the JSON is cut off
StripFence(result_text) ==
    IF StartsWith(result_text, Fence \o "json") THEN SliceFromTo(result_text, 7, 3)
    ELSE IF StartsWith(result_text, Fence) THEN SliceFromTo(result_text, 3, 3)
    ELSE result_text

\* what the evaluation LLM call does: it raises (an API error), or returns content
EvaluationOutcomes ==
    {[raises |-> TRUE, content |-> ""]}
    \cup {[raises |-> FALSE, content |-> doc.text] : doc \in JsonDocuments}
    \cup {[raises |-> FALSE, content |-> c] :
            c \in {"  " \o Fence \o "json\n" \o SpreadJson.text \o "\n" \o Fence \o "\n",
                   Fence \o "\n" \o GoodJson.text \o "\n" \o Fence,
                   Fence \o "json\n" \o GoodJson.text,
                   "The response is relevant and clear."}}

ScoreFieldOrder ==
    <<"relevance_score", "accuracy_score", "clarity_score", "completeness_score">>

\* the loop over the score fields: the first field that is not a number raises a
\* TypeError at 0 <= score <= 5, the first number out of range a ValueError
RECURSIVE ValidateScores(_, _)
ValidateScores(items, i) ==
    IF i > Len(ScoreFieldOrder) THEN "valid"
    ELSE LET score == items[ScoreFieldOrder[i]]
         IN  IF score.t # "num" THEN "TypeError"
             ELSE IF ~(RLe(Zero, score.v) /\ RLe(score.v, <<MaxScore, 1>>)) THEN "ValueError"
             ELSE ValidateScores(items, i + 1)

\* the try body of _get_llm_evaluation after the LLM call returned content:
\* it returns the data, or raises an exception the except clause retries on
\* (JSONDecodeError, ValueError), or one it lets through (TypeError)
ParseEvaluation(content) ==
    LET result_text == Strip(content)
        loaded      == json_loads(StripFence(result_text))
        items       == loaded.value.items
    IN  IF ~loaded.ok
        THEN [outcome |-> "retry", error |-> "JSONDecodeError", items |-> <<>>]
        ELSE IF loaded.value.kind # "dict" \/ ~(RequiredFields \subseteq DOMAIN items)
        THEN [outcome |-> "retry", error |-> "ValueError", items |-> <<>>]
        ELSE IF ValidateScores(items, 1) = "ValueError"
        THEN [outcome |-> "retry", error |-> "ValueError", items |-> <<>>]
        ELSE IF ValidateScores(items, 1) = "TypeError"
        THEN [outcome |-> "raise", items |-> <<>>,
              error |-> "'<=' not supported between instances of 'int' and 'str'"]
        ELSE [outcome |-> "return", error |-> None, items |-> items]

\* np.mean
Mean(scores) ==
    RDivInt(RSum(scores), Len(scores))

\* np.std: the population standard deviation
Std(scores) ==
    Then(Mean(scores), LAMBDA mean :
    Then([i \in 1..Len(scores) |-> RSub(scores[i], mean)], LAMBDA x :
    Then(Mean([i \in 1..Len(scores) |-> RMul(x[i], x[i])]), LAMBDA variance :
    RSqrt(variance))))

calculate_confidence_interval(scores, evaluator_confidence) ==
    Then(Mean(scores), LAMBDA mean_score :
    Then(IF Len(scores) > 1 THEN Std(scores) ELSE <<1, 2>>, LAMBDA std_score :
    Then(RMul(std_score, RAdd(RSub(One, evaluator_confidence), <<1, 10>>)), LAMBDA adjusted_se :
    Then(RMul(NormalQuantile, adjusted_se), LAMBDA margin_error :
    <<RMax(Zero, RSub(mean_score, margin_error)),
      RMin(<<MaxScore, 1>>, RAdd(mean_score, margin_error))>>))))

\* f"{x:.2f}": the exact value of the double rounded to two decimals, a tie to
\* the even digit
Fixed2(x) ==
    LET a     == Unpack(x)
        n     == BMulSmall(a.m, 100)
        k     == IF a.e < 0 THEN -a.e ELSE 0
        whole == IF a.e < 0 THEN BShr(n, k) ELSE BShl(n, a.e)
        up    == /\ k > 0
                 /\ BBit(n, k - 1) = 1
                 /\ (~BLowZero(n, k - 1) \/ BBit(whole, 0) = 1)
        cents == BInt(whole) + (IF up THEN 1 ELSE 0)
    IN  (IF a.neg THEN "-" ELSE "") \o IntToStr(cents \div 100) \o "."
            \o IntToStr((cents % 100) \div 10) \o IntToStr(cents % 10)

\* the fallback evaluation of the except clause of evaluate_response
FallbackResult(error) ==
    [raised |-> FALSE,
     overall_score |-> FallbackScore, relevance_score |-> FallbackScore,
     accuracy_score |-> FallbackScore, clarity_score |-> FallbackScore,
     confidence_interval |-> <<<<2, 1>>, <<3, 1>>>>,
     feedback |-> "Evaluation failed - manual review required",
     reasoning |-> "Automatic evaluation failed: " \o error,
     evaluation_metadata |-> [error |-> error, fallback |-> TRUE]]

\* an evaluate_response without its except clause
FinishEvaluationUncaught(data) ==
    IF data.raised # None \/ data.items["confidence"].t # "num"
    THEN [raised |-> TRUE, returned |-> FALSE]
    ELSE FallbackResult("unused")

\* evaluate_response once _get_llm_evaluation returned or raised: the result
\* built from the data, or the fallback (the timestamp of the metadata is left out)
FinishEvaluation(data) ==
    IF data.raised # None THEN FallbackResult(data.raised)
    ELSE IF data.items["confidence"].t # "num"
    THEN FallbackResult("unsupported operand type(s) for -: 'int' and 'str'")
    ELSE LET scores == [i \in 1..4 |-> data.items[ScoreFieldOrder[i]].v]
         IN  [raised |-> FALSE,
              overall_score |-> Mean(scores),
              relevance_score |-> data.items["relevance_score"].v,
              accuracy_score |-> data.items["accuracy_score"].v,
              clarity_score |-> data.items["clarity_score"].v,
              confidence_interval |->
                  calculate_confidence_interval(scores, data.items["confidence"].v),
              feedback |-> "Overall quality: " \o Fixed2(Mean(scores)) \o "/5.0",
              reasoning |-> data.items["reasoning"].v,
              evaluation_metadata |->
                  [completeness_score |-> data.items["completeness_score"].v,
                   evaluator_confidence |-> data.items["confidence"].v,
                   evaluation_version |-> "1.0"]]

InitEvaluation ==
    /\ ev_pc = "asking"
    /\ ev_responses = <<>>
    /\ ev_attempt = 0
    /\ ev_calls = 0
    /\ ev_data = [raised |-> None, items |-> <<>>]
    /\ ev_result = [raised |-> FALSE, returned |-> FALSE]
    /\ PipelineIdle
    /\ RerunIdle
    /\ ChunkerIdle
    /\ ServicesIdle

\* one pass of the retry loop of _get_llm_evaluation
AskEvaluation ==
    /\ ev_pc = "asking"
    /\ ev_attempt < max_retries
    /\ \E llm \in EvaluationOutcomes :
          LET parsed == ParseEvaluation(llm.content)
          IN  /\ ev_responses' = Append(ev_responses, llm)
              /\ IF llm.raises
                 THEN /\ ev_data' = [raised |-> "API Error", items |-> <<>>]
                      /\ ev_pc' = "finishing"
                      /\ UNCHANGED ev_attempt
                 ELSE IF parsed.outcome = "return"
                 THEN /\ ev_data' = [raised |-> None, items |-> parsed.items]
                      /\ ev_pc' = "finishing"
                      /\ UNCHANGED ev_attempt
                 ELSE IF parsed.outcome = "raise"
                 THEN /\ ev_data' = [raised |-> parsed.error, items |-> <<>>]
                      /\ ev_pc' = "finishing"
                      /\ UNCHANGED ev_attempt
                 ELSE IF ev_attempt = max_retries - 1
                 THEN /\ ev_data' = [raised |-> "Failed to get valid evaluation after "
                                                   \o IntToStr(max_retries) \o " attempts",
                                     items |-> <<>>]
                      /\ ev_pc' = "finishing"
                      /\ UNCHANGED ev_attempt
                 ELSE /\ ev_attempt' = ev_attempt + 1
                      /\ UNCHANGED <<ev_data, ev_pc>>
    /\ ev_calls' = ev_calls + 1
    /\ UNCHANGED ev_result
    /\ UNCHANGED <<pipeline_vars, rerun_vars, chunker_vars, service_vars>>

\* the rest of evaluate_response
ReturnEvaluation ==
    /\ ev_pc = "finishing"
    /\ ev_result' = FinishEvaluation(ev_data)
    /\ ev_pc' = "returned"
    /\ UNCHANGED <<ev_responses, ev_attempt, ev_calls, ev_data>>
    /\ UNCHANGED <<pipeline_vars, rerun_vars, chunker_vars, service_vars>>

NextEvaluation ==
    \/ AskEvaluation
    \/ ReturnEvaluation

SpecEvaluation ==
    InitEvaluation /\ [][NextEvaluation]_vars

(***************************************************************************)
(* Two queries at once.  The ContextChunk objects live in a heap; a query's *)
(* lists hold references into it, and a stage that assigns to a field of a *)
(* chunk writes the object every holder of the reference sees.             *)
(***************************************************************************)
ConcurrentQueries ==
    1..2

\* what the index returns for a query: three small hits, six hits that reach the
\* re-ranking loop, two large hits the packer truncates
ConcurrentResults ==
    {NearDuplicateResult,
     [i \in 1..6 |-> RerankHit(i)],
     <<Hit(CHOOSE d \in LargeDocs : d.id = "big_1", <<1, 8>>),
       Hit(CHOOSE d \in LargeDocs : d.id = "big_2", <<1, 8>>)>>}

\* what the re-ranking LLM answers for the candidates of one query, in call order
ConcurrentEvalLogs ==
    {[i \in 1..RerankLimit |-> DefaultEvalOutcome],
     [i \in 1..RerankLimit |->
         IF i = 2 THEN [raises |-> FALSE, content |-> "Score: 1"]
         ELSE DefaultEvalOutcome]}

\* the chunks a list of references stands for
Deref(heap, refs) ==
    [i \in 1..Len(refs) |-> heap[refs[i]]]

\* the references of the objects that chunks, a list computed from
\* Deref(heap, refs), is made of
RefsOf(heap, refs, chunks) ==
    [i \in 1..Len(chunks) |->
        refs[CHOOSE k \in 1..Len(refs) : heap[refs[k]].source_id = chunks[i].source_id]]

\* the heap after the objects of chunks took the field values chunks has
Store(heap, refs, chunks) ==
    LET at == RefsOf(heap, refs, chunks)
    IN  [r \in 1..Len(heap) |->
            IF \E i \in 1..Len(at) : at[i] = r
            THEN chunks[CHOOSE i \in 1..Len(at) : at[i] = r]
            ELSE heap[r]]

\* a retriever that keeps one ContextChunk object per source_id for all queries
AllocateChunksShared(heap, chunks) ==
    LET known(c) == \E r \in 1..Len(heap) : heap[r].source_id = c.source_id
        fresh    == SelectSeq(chunks, LAMBDA c : ~known(c))
        grown    == heap \o fresh
    IN  [heap |-> grown,
         refs |-> [i \in 1..Len(chunks) |->
                      CHOOSE r \in 1..Len(grown) :
                          grown[r].source_id = chunks[i].source_id]]

\* chunk = ContextChunk(...) in retrieve_context: new objects for every call
AllocateChunks(heap, chunks) ==
    [heap |-> heap \o chunks,
     refs |-> [i \in 1..Len(chunks) |-> Len(heap) + i]]

\* the chunks of _llm_rerank_contexts after its loop, before the sort
EvaluateCandidates(has_client, chunks, outcomes) ==
    [i \in 1..Len(chunks) |->
        IF has_client /\ i <= RerankCandidateCount(chunks)
        THEN EvaluateChunk(chunks[i], outcomes[i])
        ELSE chunks[i]]

\* _llm_rerank_contexts for the LLM answers outcomes
llm_rerank_contexts(has_client, chunks, outcomes) ==
    IF chunks = <<>> THEN chunks
    ELSE IF Len(chunks) <= final_context_chunks THEN SortByScore(chunks)
    ELSE SortByScore(EvaluateCandidates(has_client, chunks, outcomes))

\* query_rag once retrieve_context returned context_chunks
QueryResponse(has_client, chunks, max_results, include_metadata, outcome) ==
    LET used == Take(chunks, max_results)
        g    == generate_answer(has_client, used, outcome)
    IN  IF chunks = <<>>
        THEN [status |-> 200, answer |-> NoContextAnswer, sources |-> <<>>,
              context_used |-> <<>>, confidence_score |-> Zero]
        ELSE IF g.raised
        THEN [status |-> 500, detail |-> "Answer generation failed"]
        ELSE [status |-> 200, answer |-> g.answer, sources |-> PrepareSources(used),
              context_used |-> IF include_metadata
                               THEN [i \in 1..Len(used) |-> used[i].content]
                               ELSE <<>>,
              confidence_score |-> g.confidence_score]

\* the locals of a query that has not started
\* the requests of the two queries: with and without include_metadata
ConcurrentRequests ==
    {DefaultRequest, [DefaultRequest EXCEPT !.include_metadata = FALSE]}

QueryStart ==
    [pc |-> "retrieving", hits |-> <<>>, refs |-> <<>>,
     evals |-> <<>>, gen |-> NoOutcome, response |-> NoResponse]

InitConcurrent ==
    /\ cq_heap = <<>>
    /\ cq_state = [q \in ConcurrentQueries |-> QueryStart]
    /\ app = "rag"
    /\ request \in ConcurrentRequests
    /\ client \in BOOLEAN
    /\ pc = "idle"
    /\ semantic_results = [ok |-> TRUE, hits |-> <<>>]
    /\ context_chunks = <<>>
    /\ quality_chunks = <<>>
    /\ user_chunks = <<>>
    /\ filtered_chunks = <<>>
    /\ rerank_chunks = <<>>
    /\ rerank_i = 0
    /\ eval_log = <<>>
    /\ reranked_chunks = <<>>
    /\ final_chunks = <<>>
    /\ index_calls = 0
    /\ gen_calls = 0
    /\ result = NoResult
    /\ response = NoResponse
    /\ query_log = <<>>
    /\ AroundConcurrent

\* retrieve_context up to the chunks built from the hits
QueryRetrieve(q) ==
    /\ cq_state[q].pc = "retrieving"
    /\ \E hits \in ConcurrentResults :
          LET made == AllocateChunks(cq_heap, BuildChunks(hits))
          IN  /\ cq_heap' = made.heap
              /\ cq_state' = [cq_state EXCEPT ![q].hits = hits, ![q].refs = made.refs,
                                              ![q].pc = "filtering"]
    /\ UNCHANGED outside_concurrent

\* await self._apply_advanced_filtering(...)
QueryFilter(q) ==
    /\ cq_state[q].pc = "filtering"
    /\ LET kept == apply_advanced_filtering(Deref(cq_heap, cq_state[q].refs),
                                            request.filter_params)
       IN  cq_state' = [cq_state EXCEPT
                           ![q].refs = RefsOf(cq_heap, cq_state[q].refs, kept),
                           ![q].pc = "reranking"]
    /\ UNCHANGED <<cq_heap, outside_concurrent>>

\* await self._llm_rerank_contexts(...): chunk.relevance_score is assigned to
QueryRerank(q) ==
    /\ cq_state[q].pc = "reranking"
    /\ \E outcomes \in ConcurrentEvalLogs :
          LET chunks    == Deref(cq_heap, cq_state[q].refs)
              asked     == client /\ Len(chunks) > final_context_chunks
              evaluated == IF asked THEN EvaluateCandidates(client, chunks, outcomes)
                           ELSE chunks
          IN  /\ ~asked => outcomes = [i \in 1..RerankLimit |-> DefaultEvalOutcome]
              /\ cq_heap' = Store(cq_heap, cq_state[q].refs, evaluated)
              /\ cq_state' = [cq_state EXCEPT
                     ![q].evals = outcomes,
                     ![q].refs = RefsOf(cq_heap, cq_state[q].refs,
                                        llm_rerank_contexts(client, chunks, outcomes)),
                     ![q].pc = "packing"]
    /\ UNCHANGED outside_concurrent

\* self._select_optimal_context(...): chunk.content is assigned to
QueryPack(q) ==
    /\ cq_state[q].pc = "packing"
    /\ LET selected == select_optimal_context(Deref(cq_heap, cq_state[q].refs))
       IN  /\ cq_heap' = Store(cq_heap, cq_state[q].refs, selected)
           /\ cq_state' = [cq_state EXCEPT
                  ![q].refs = RefsOf(cq_heap, cq_state[q].refs, selected),
                  ![q].pc = "generating"]
    /\ UNCHANGED outside_concurrent

\* await rag_system.generate_answer(...) and the response
QueryGenerate(q) ==
    /\ cq_state[q].pc = "generating"
    /\ \E outcome \in IF client /\ cq_state[q].refs # <<>> THEN GenOutcomes ELSE {NoOutcome} :
          cq_state' = [cq_state EXCEPT
              ![q].gen = outcome,
              ![q].response = QueryResponse(client, Deref(cq_heap, cq_state[q].refs),
                                            request.max_results,
                                            request.include_metadata, outcome),
              ![q].pc = "done"]
    /\ UNCHANGED <<cq_heap, outside_concurrent>>

NextConcurrent ==
    \E q \in ConcurrentQueries :
        \/ QueryRetrieve(q)
        \/ QueryFilter(q)
        \/ QueryRerank(q)
        \/ QueryPack(q)
        \/ QueryGenerate(q)

SpecConcurrent ==
    InitConcurrent /\ [][NextConcurrent]_vars

(***************************************************************************)
(* DatabaseSingleton.get_instance called from several threads.             *)
(***************************************************************************)
\* number of threads that call get_instance
MaxThreads ==
    3

Threads ==
    1..MaxThreads

\* the n-th ChromaDB object constructed
ChromaDBInstance(n) ==
    "ChromaDB#" \o IntToStr(n)

InitSingleton ==
    /\ ds_instance = None
    /\ ds_lock = 0
    /\ ds_built = 0
    /\ ds_pc = [t \in Threads |-> "called"]
    /\ ds_result = [t \in Threads |-> None]
    /\ PipelineIdle
    /\ AroundSingleton

\* if cls._instance is None, outside the lock
CheckInstance(t) ==
    /\ ds_pc[t] = "called"
    /\ ds_pc' = [ds_pc EXCEPT ![t] = IF ds_instance = None THEN "waiting" ELSE "returning"]
    /\ UNCHANGED <<ds_instance, ds_lock, ds_built, ds_result, outside_singleton>>

\* with cls._lock: the thread blocks until the lock is free
AcquireLock(t) ==
    /\ ds_pc[t] = "waiting"
    /\ ds_lock = 0
    /\ ds_lock' = t
    /\ ds_pc' = [ds_pc EXCEPT ![t] = "locked"]
    /\ UNCHANGED <<ds_instance, ds_built, ds_result, outside_singleton>>

\* a get_instance that does not look at _instance again under the lock
CheckInstanceLockedBlind(t) ==
    /\ ds_pc[t] = "locked"
    /\ ds_pc' = [ds_pc EXCEPT ![t] = "constructing"]
    /\ UNCHANGED <<ds_instance, ds_lock, ds_built, ds_result, outside_singleton>>

\* if cls._instance is None, under the lock; the with block is left otherwise
CheckInstanceLocked(t) ==
    /\ ds_pc[t] = "locked"
    /\ IF ds_instance = None
       THEN ds_pc' = [ds_pc EXCEPT ![t] = "constructing"] /\ UNCHANGED ds_lock
       ELSE ds_pc' = [ds_pc EXCEPT ![t] = "returning"] /\ ds_lock' = 0
    /\ UNCHANGED <<ds_instance, ds_built, ds_result, outside_singleton>>

\* os.makedirs and cls._instance = ChromaDB(): the instance is assigned, or the
\* exception becomes an HTTPException 500; either way the with block is left
Construct(t) ==
    /\ ds_pc[t] = "constructing"
    /\ \E ok \in BOOLEAN :
          IF ok
          THEN /\ ds_built' = ds_built + 1
               /\ ds_instance' = ChromaDBInstance(ds_built + 1)
               /\ ds_pc' = [ds_pc EXCEPT ![t] = "returning"]
               /\ UNCHANGED ds_result
          ELSE /\ ds_pc' = [ds_pc EXCEPT ![t] = "raised"]
               /\ ds_result' = [ds_result EXCEPT ![t] = "HTTPException 500"]
               /\ UNCHANGED <<ds_instance, ds_built>>
    /\ ds_lock' = 0
    /\ UNCHANGED outside_singleton

\* return cls._instance
ReturnInstance(t) ==
    /\ ds_pc[t] = "returning"
    /\ ds_result' = [ds_result EXCEPT ![t] = ds_instance]
    /\ ds_pc' = [ds_pc EXCEPT ![t] = "returned"]
    /\ UNCHANGED <<ds_instance, ds_lock, ds_built, outside_singleton>>

NextSingleton ==
    \E t \in Threads :
        \/ CheckInstance(t)
        \/ AcquireLock(t)
        \/ CheckInstanceLocked(t)
        \/ Construct(t)
        \/ ReturnInstance(t)

SpecSingleton ==
    InitSingleton /\ [][NextSingleton]_vars

(***************************************************************************)
(* DELETE /documents/{document_id}                                         *)
(***************************************************************************)
\* the active users that send the request: the owner of document 1, the owner of
\* document 2, an administrator who owns no document
DeleteUsers ==
    {[id |-> 1, is_admin |-> FALSE], [id |-> 2, is_admin |-> FALSE],
     [id |-> 3, is_admin |-> TRUE], [id |-> 1, is_admin |-> TRUE]}

\* Document.chunk_ids of document 1
ChunkIdLists ==
    {<<>>, <<"d1_c1">>, <<"d1_c1", "d1_c2">>}

DocumentRow(id, owner_id, chunk_ids) ==
    [id |-> id, owner_id |-> owner_id, chunk_ids |-> chunk_ids]

SecondDocument ==
    DocumentRow(2, 2, <<"d2_c1">>)

\* the ids of a chunk_ids list
ChunkIdSet(chunk_ids) ==
    {chunk_ids[i] : i \in 1..Len(chunk_ids)}

\* the document ids of the requests: the two documents and one that does not exist
DocumentIds ==
    {1, 2, 3}

InitDelete ==
    /\ dl_request \in [document_id : DocumentIds, current_user : DeleteUsers]
    /\ \E chunk_ids \in ChunkIdLists :
          /\ dl_rows = {DocumentRow(1, 1, chunk_ids), SecondDocument}
          /\ dl_index = ChunkIdSet(chunk_ids) \cup ChunkIdSet(SecondDocument.chunk_ids)
    /\ dl_document = None
    /\ dl_pc = "called"
    /\ dl_response = [status |-> 0]
    /\ PipelineIdle
    /\ AroundDelete

\* crud.get_document: the row of that id, <<>> for None when there is none or
\* when the query raises
crud_get_document(rows, document_id, queried) ==
    IF queried /\ \E row \in rows : row.id = document_id
    THEN <<CHOOSE row \in rows : row.id = document_id>>
    ELSE <<>>

\* crud.get_document and the 404
GetDocument ==
    /\ dl_pc = "called"
    /\ \E queried \in BOOLEAN :
          LET document == crud_get_document(dl_rows, dl_request.document_id, queried)
          IN  IF document # <<>>
              THEN /\ dl_document' = document[1]
                   /\ dl_pc' = "authorizing"
                   /\ UNCHANGED dl_response
              ELSE /\ dl_response' = [status |-> 404, detail |-> "Document not found"]
                   /\ dl_pc' = "returned"
                   /\ UNCHANGED dl_document
    /\ UNCHANGED <<dl_request, dl_rows, dl_index, outside_delete>>

\* the ownership check and the 403
CheckOwnership ==
    /\ dl_pc = "authorizing"
    /\ IF dl_document.owner_id # dl_request.current_user.id
              /\ ~dl_request.current_user.is_admin
       THEN /\ dl_response' = [status |-> 403,
                               detail |-> "Not authorized to delete this document"]
            /\ dl_pc' = "returned"
       ELSE /\ dl_pc' = "deleting_vectors"
            /\ UNCHANGED dl_response
    /\ UNCHANGED <<dl_request, dl_rows, dl_index, dl_document, outside_delete>>

\* VectorDatabaseService.delete_document_vectors: the chunks are deleted, or
\* ChromaDB() or its delete raises and the method returns False
delete_document_vectors(index, chunk_ids, deleted) ==
    IF deleted THEN [index |-> index \ ChunkIdSet(chunk_ids), returned |-> TRUE]
    ELSE [index |-> index, returned |-> FALSE]

\* if document.chunk_ids: await ...delete_document_vectors(document.chunk_ids),
\* whose return value is not looked at
DeleteVectors ==
    /\ dl_pc = "deleting_vectors"
    /\ IF dl_document.chunk_ids # <<>>
       THEN \E deleted \in BOOLEAN :
               dl_index' = delete_document_vectors(dl_index, dl_document.chunk_ids,
                                                   deleted).index
       ELSE UNCHANGED dl_index
    /\ dl_pc' = "deleting_row"
    /\ UNCHANGED <<dl_request, dl_rows, dl_document, dl_response, outside_delete>>

\* crud.delete_document: the row of that id and that owner is deleted when the
\* commit goes through
crud_delete_document(rows, document_id, owner_id, committed) ==
    LET found == {row \in rows : row.id = document_id /\ row.owner_id = owner_id}
    IN  IF found = {} THEN [rows |-> rows, success |-> FALSE]
        ELSE IF committed THEN [rows |-> rows \ found, success |-> TRUE]
        ELSE [rows |-> rows, success |-> FALSE]

\* crud.delete_document(db, document_id, current_user.id) and the answer
DeleteRow ==
    /\ dl_pc = "deleting_row"
    /\ \E committed \in BOOLEAN :
          LET done == crud_delete_document(dl_rows, dl_request.document_id,
                                           dl_request.current_user.id, committed)
          IN  /\ dl_rows' = done.rows
              /\ dl_response' = IF done.success
                                THEN [status |-> 200,
                                      message |-> "Document deleted successfully"]
                                ELSE [status |-> 500,
                                      detail |-> "Failed to delete document"]
    /\ dl_pc' = "returned"
    /\ UNCHANGED <<dl_request, dl_index, dl_document, outside_delete>>

NextDelete ==
    \/ GetDocument
    \/ CheckOwnership
    \/ DeleteVectors
    \/ DeleteRow

SpecDelete ==
    InitDelete /\ [][NextDelete]_vars

(***************************************************************************)
(* auth.check_rate_limit                                                   *)
(***************************************************************************)
\* the number of check_rate_limit calls of a run
MaxCalls == 4

\* the last second of the clock
MaxClock == 4

\* the identifiers of get_current_user_or_api_key: one per client IP, one per key
Identifiers ==
    {"ip:10.0.0.1", "api_key:1"}

\* the limits and windows of the runs
RateLimits ==
    {1, 2}

RateWindows ==
    {2, 3}

\* the timestamps of the identifier, [] for one not seen before
StoredTimestamps(storage, identifier) ==
    IF identifier \in DOMAIN storage THEN storage[identifier] ELSE <<>>

\* "Clean old entries": the timestamps after window_start
CleanOldEntries(timestamps, window_start) ==
    SelectSeq(timestamps, LAMBDA timestamp : timestamp > window_start)

\* _rate_limit_storage[identifier] = value
StoreTimestamps(storage, identifier, timestamps) ==
    [key \in DOMAIN storage \cup {identifier} |->
        IF key = identifier THEN timestamps ELSE storage[key]]

\* check_rate_limit that lets the call through when the list is exactly full
check_rate_limit_one_more(storage, identifier, limit, window, now) ==
    LET cleaned == CleanOldEntries(StoredTimestamps(storage, identifier), now - window)
    IN  IF Len(cleaned) > limit
        THEN [storage |-> StoreTimestamps(storage, identifier, cleaned),
              returned |-> FALSE]
        ELSE [storage |-> StoreTimestamps(storage, identifier, Append(cleaned, now)),
              returned |-> TRUE]

\* check_rate_limit: the storage after the call and the value returned
check_rate_limit(storage, identifier, limit, window, now) ==
    LET cleaned == CleanOldEntries(StoredTimestamps(storage, identifier), now - window)
    IN  IF Len(cleaned) >= limit
        THEN [storage |-> StoreTimestamps(storage, identifier, cleaned),
              returned |-> FALSE]
        ELSE [storage |-> StoreTimestamps(storage, identifier, Append(cleaned, now)),
              returned |-> TRUE]

InitRateLimit ==
    /\ rl_storage = <<>>
    /\ rl_now = 0
    /\ rl_config \in [limit : RateLimits, window : RateWindows]
    /\ rl_log = <<>>
    /\ PipelineIdle
    /\ AroundRatelimit

\* a second passes
ClockTick ==
    /\ rl_now < MaxClock
    /\ rl_now' = rl_now + 1
    /\ UNCHANGED <<rl_storage, rl_config, rl_log, outside_ratelimit>>

\* one call of check_rate_limit(identifier, limit, window)
CheckRateLimit(identifier) ==
    /\ Len(rl_log) < MaxCalls
    /\ LET call == check_rate_limit(rl_storage, identifier, rl_config.limit,
                                    rl_config.window, rl_now)
       IN  /\ rl_storage' = call.storage
           /\ rl_log' = Append(rl_log, [identifier |-> identifier, now |-> rl_now,
                                        returned |-> call.returned])
    /\ UNCHANGED <<rl_now, rl_config, outside_ratelimit>>

NextRateLimit ==
    \/ ClockTick
    \/ \E identifier \in Identifiers : CheckRateLimit(identifier)

SpecRateLimit ==
    InitRateLimit /\ [][NextRateLimit]_vars

(***************************************************************************)
(* auth.verify_api_key and auth.get_current_user_or_api_key                *)
(***************************************************************************)
\* limit=1000 of the rate limit by IP
IpRateLimit == 1000

\* window: int = 3600
DefaultWindow == 3600

\* the bearer credentials of the requests: none, the key of row 1, a key of no
\* row, a JWT of user alice
BearerCredentials ==
    {"", "rag_key_1", "rag_key_unknown", "jwt.alice"}

\* hash_api_key: the SHA-256 digest of the key
hash_api_key(api_key) ==
    "sha256:" \o api_key

\* the users table
UserRows ==
    {[id |-> 1, username |-> "alice", is_active |-> TRUE]}

\* crud.get_user: <<>> for None, when no user has the id or the query raises
get_user(user_id, queried) ==
    IF queried /\ \E user \in UserRows : user.id = user_id
    THEN <<CHOOSE user \in UserRows : user.id = user_id>>
    ELSE <<>>

\* the rows the api_keys table may hold for the key "rag_key_1" of user 1;
\* expires_at and last_used are <<>> for NULL
APIKeyRows ==
    [id : {1}, key_hash : {hash_api_key("rag_key_1")}, owner_id : {1},
     is_active : BOOLEAN, rate_limit : {1, IpRateLimit},
     expires_at : {<<>>, <<5>>, <<20>>},
     last_used : {<<>>}, total_requests : {0, 7}]

\* crud.get_api_key_by_hash: <<>> for None, when no key has the hash or the
\* query raises
get_api_key_by_hash(keys, key_hash, queried) ==
    LET ids == {id \in DOMAIN keys : keys[id].key_hash = key_hash}
    IN  IF ~queried \/ ids = {} THEN <<>> ELSE <<keys[CHOOSE id \in ids : TRUE]>>

\* crud.update_api_key_usage: the table after the call and the value returned;
\* when the query or the commit raises, the session is rolled back
update_api_key_usage(keys, api_key_id, now, committed) ==
    IF api_key_id \in DOMAIN keys /\ committed
    THEN [keys |-> [keys EXCEPT ![api_key_id].last_used = <<now>>,
                                ![api_key_id].total_requests = @ + 1],
          returned |-> TRUE]
    ELSE [keys |-> keys, returned |-> FALSE]

\* verify_api_key: the key returned and the table after the call. The usage
\* update is called as update__api_key_usage, a name that is not bound: the call
\* raises NameError, which the except clause turns into None
verify_api_key(keys, credentials, now, queried) ==
    LET found == get_api_key_by_hash(keys, hash_api_key(credentials), queried)
    IN  IF credentials = "" THEN [api_key |-> <<>>, keys |-> keys]
        ELSE IF found = <<>> \/ ~found[1].is_active
        THEN [api_key |-> <<>>, keys |-> keys]
        ELSE IF found[1].expires_at # <<>> /\ found[1].expires_at[1] < now
        THEN [api_key |-> <<>>, keys |-> keys]
        ELSE [api_key |-> <<>>, keys |-> keys]

\* verify_token: the username of a JWT that verifies, <<>> for None
verify_token(token) ==
    IF token = "jwt.alice" THEN <<"alice">> ELSE <<>>

\* crud.get_user_by_username: the users of that name, none when the query raises
get_user_by_username(username, queried) ==
    IF queried THEN {user \in UserRows : user.username = username} ELSE {}

\* get_current_user: the user of the token or the error raised
get_current_user(token, queried) ==
    LET token_data == verify_token(token)
        users == IF token_data = <<>> THEN {}
                 ELSE get_user_by_username(token_data[1], queried)
    IN  IF token = "" THEN [status |-> 401, detail |-> "Access token required"]
        ELSE IF token_data = <<>>
        THEN [status |-> 401, detail |-> "Invalid or expired token"]
        ELSE IF users = {} THEN [status |-> 401, detail |-> "User not found"]
        ELSE LET user == CHOOSE user \in users : TRUE
             IN  IF ~user.is_active THEN [status |-> 401, detail |-> "Inactive user"]
                 ELSE [status |-> 200, user |-> <<user>>]

\* the rate-limit storage when the request arrives: empty, or the key of row 1
\* was used in this second
InitialStorages(now) ==
    {<<>>, [identifier \in {"api_key:1"} |-> <<now>>]}

InitApikey ==
    /\ ak_request \in [authorization : BearerCredentials, host : {"10.0.0.1"},
                       now : {10}]
    /\ \E row \in APIKeyRows : ak_keys = [id \in {row.id} |-> row]
    /\ ak_before = ak_keys
    /\ ak_storage \in InitialStorages(ak_request.now)
    /\ ak_api_key = <<>>
    /\ ak_pc = "received"
    /\ ak_result = [status |-> 0]
    /\ ak_queried = <<>>
    /\ PipelineIdle
    /\ AroundApikey

\* the dependency api_key = Depends(verify_api_key)
VerifyApiKey ==
    /\ ak_pc = "received"
    /\ \E queried \in BOOLEAN :
          LET verified == verify_api_key(ak_keys, ak_request.authorization,
                                         ak_request.now, queried)
          IN  /\ ak_api_key' = verified.api_key
              /\ ak_keys' = verified.keys
              /\ ak_queried' = Append(ak_queried, queried)
    /\ ak_pc' = "verified"
    /\ UNCHANGED <<ak_request, ak_before, ak_storage, ak_result, outside_apikey>>

\* get_current_user_or_api_key
GetCurrentUserOrApiKey ==
    /\ ak_pc = "verified"
    /\ \E queried \in BOOLEAN :
          /\ ak_queried' = Append(ak_queried, queried)
          /\ LET by_ip == check_rate_limit(ak_storage, "ip:" \o ak_request.host,
                                           IpRateLimit, DefaultWindow, ak_request.now)
                 by_key == check_rate_limit(by_ip.storage,
                                            "api_key:" \o IntToStr(ak_api_key[1].id),
                                            ak_api_key[1].rate_limit, DefaultWindow,
                                            ak_request.now)
                 jwt == get_current_user(ak_request.authorization, queried)
             IN  IF ~by_ip.returned
                 THEN /\ ak_storage' = by_ip.storage
                      /\ ak_result' = [status |-> 429, detail |-> "Rate limit exceeded"]
                 ELSE IF ak_api_key # <<>>
                 THEN /\ ak_storage' = by_key.storage
                      /\ ak_result' =
                            IF ~by_key.returned
                            THEN [status |-> 429,
                                  detail |-> "API key rate limit exceeded"]
                            ELSE [status |-> 200,
                                  user |-> get_user(ak_api_key[1].owner_id, queried),
                                  api_key |-> ak_api_key, auth_type |-> "api_key"]
                 ELSE /\ ak_storage' = by_ip.storage
                      /\ ak_result' =
                            IF ak_request.authorization = ""
                            THEN [status |-> 401, detail |-> "Authentication required"]
                            ELSE IF jwt.status # 200 THEN jwt
                            ELSE [status |-> 200, user |-> jwt.user, api_key |-> <<>>,
                                  auth_type |-> "jwt"]
    /\ ak_pc' = "returned"
    /\ UNCHANGED <<ak_request, ak_keys, ak_before, ak_api_key, outside_apikey>>

NextApikey ==
    \/ VerifyApiKey
    \/ GetCurrentUserOrApiKey

SpecApikey ==
    InitApikey /\ [][NextApikey]_vars

(***************************************************************************)
(* Claims                                                                  *)
(***************************************************************************)
RECURSIVE SumTokens(_)
SumTokens(chunks) ==
    IF chunks = <<>> THEN 0
    ELSE (Len(Head(chunks).content) \div 4) + SumTokens(Tail(chunks))

RECURSIVE TotalChars(_)
TotalChars(chunks) ==
    IF chunks = <<>> THEN 0 ELSE Len(Head(chunks).content) + TotalChars(Tail(chunks))

Ids(chunks) ==
    {chunks[i].source_id : i \in 1..Len(chunks)}

InUnit(x) ==
    RLe(Zero, x) /\ RLe(x, One)

\* C1: the packer returns at most final_context_chunks chunks, and the sum of
\* len(content) // 4 over them, a truncated chunk counted by its truncated
\* content, is at most max_context_length.
C1_PackerWithinLimits ==
    /\ Len(final_chunks) <= 5
    /\ SumTokens(final_chunks) <= 4000

\* the packer has truncated the last chunk it returned
C1_Witness ==
    /\ pc = "packed"
    /\ Len(final_chunks) = 2
    /\ final_chunks[2].content # reranked_chunks[2].content
    /\ SumTokens(final_chunks) = 4000

\* C2: the selected chunks satisfy (total characters of all contents) // 4
\* <= max_context_length.
C2_TotalCharsWithinLimit ==
    TotalChars(final_chunks) \div 4 <= 4000

\* C3: when the retrieval pipeline yields zero chunks, the response is a success
\* with the canned answer, confidence 0.0 and no sources, and the
\* answer-generation LLM is never called.
C3_NoContextResponse ==
    (/\ pc \in {"packed", "logging", "logging_failure", "done", "failed"}
     /\ semantic_results.ok
     /\ final_chunks = <<>>)
    => /\ gen_calls = 0
       /\ pc \in {"packed", "logging", "done"}
       /\ pc = "done" =>
             /\ response.status = 200
             /\ response.answer =
                    "I don't have enough information in the knowledge base to answer this question."
             /\ response.confidence_score = <<0, 1>>
             /\ response.sources = <<>>

\* the index returned hits, filtering removed them all, and the client has its answer
C3_Witness ==
    /\ pc = "done"
    /\ semantic_results.hits # <<>>
    /\ context_chunks # <<>>
    /\ final_chunks = <<>>

\* C4: a chunk built from a hit of distance d has relevance score
\* s = max(0, 1 - d), 0 <= s <= 1, and no chunk with s < min_relevance_score
\* is kept.
C4_RelevanceFromDistance ==
    \A i \in 1..Len(context_chunks) :
        \E k \in 1..Len(semantic_results.hits) :
            LET d == semantic_results.hits[k].distance
                s == context_chunks[i].relevance_score
            IN  /\ semantic_results.hits[k].id = context_chunks[i].source_id
                /\ s = (IF RLe(d, <<1, 1>>) THEN RSub(<<1, 1>>, d) ELSE <<0, 1>>)
                /\ RLe(<<0, 1>>, s)
                /\ RLe(s, <<1, 1>>)
                /\ ~RLt(s, <<1, 10>>)

\* the Retriever has kept one hit and dropped another, of distance above 1
C4_Witness ==
    /\ pc = "filtering"
    /\ Len(context_chunks) = 1
    /\ Len(semantic_results.hits) = 2
    /\ \E k \in 1..2 : RLt(<<1, 1>>, semantic_results.hits[k].distance)

\* C5: the confidence score returned for any answer and any packed chunks the
\* pipeline passes to the generator lies in [0, 1].
C5_ConfidenceInUnitInterval ==
    pc \in {"logging", "done"} => InUnit(result.confidence_score)

\* C6 as claimed: a failure of the index query or of the generation call gives
\* a 500 with a generic message and no answer or sources, and the query log
\* holds exactly one entry, of status "failed".
C6_FailureLoggedOnce ==
    pc = "failed" =>
        /\ response.status = 500
        /\ DOMAIN response = {"status", "detail"}
        /\ Len(query_log) = 1
        /\ query_log[1].status = "failed"

\* C6 as amended: a failure of the index query or of the generation call gives
\* a 500 with a generic message and no answer or sources; the query log holds
\* no "completed" entry and at most one entry, of status "failed", and none in
\* rag.py's own app.
C6_FailureNeverLoggedCompleted ==
    pc = "failed" =>
        /\ response.status = 500
        /\ DOMAIN response = {"status", "detail"}
        /\ response.detail \in {"Query processing failed", "Context retrieval failed",
                                "Answer generation failed"}
        /\ result.answer = None
        /\ result.sources = <<>>
        /\ Len(query_log) <= 1
        /\ \A k \in 1..Len(query_log) : query_log[k].status = "failed"
        /\ app = "rag" => query_log = <<>>
        /\ ~semantic_results.ok => gen_calls = 0

\* the generation call failed in the backend app and the failure is in the log
C6_Witness ==
    /\ pc = "failed"
    /\ app = "backend"
    /\ semantic_results.ok
    /\ gen_calls = 1
    /\ Len(query_log) = 1

\* the LLM call raised, or its response has no parsable numeric score
EvalUnusable(outcome) ==
    \/ outcome.raises
    \/ ~Contains(Lower(outcome.content), "score")
    \/ NumberMatch(Lower(outcome.content)) = ""
    \/ ~FloatOk(NumberMatch(Lower(outcome.content)))

\* C7: re-ranking returns a permutation of its input chunks for every pattern
\* of LLM outcomes, and a chunk whose evaluation failed or could not be parsed,
\* or that was not evaluated, keeps the relevance_score it had on entry.
C7_RerankDegradesGracefully ==
    pc = "packing" =>
        /\ Len(reranked_chunks) = Len(filtered_chunks)
        /\ Ids(reranked_chunks) = Ids(filtered_chunks)
        /\ \A i, j \in 1..Len(filtered_chunks) :
              reranked_chunks[j].source_id = filtered_chunks[i].source_id =>
                  /\ reranked_chunks[j].content = filtered_chunks[i].content
                  /\ reranked_chunks[j].metadata = filtered_chunks[i].metadata
        /\ \A i \in 1..Len(filtered_chunks) :
              (i > Len(eval_log) \/ EvalUnusable(eval_log[i])) =>
                  \E j \in 1..Len(reranked_chunks) :
                      /\ reranked_chunks[j].source_id = filtered_chunks[i].source_id
                      /\ reranked_chunks[j].relevance_score =
                             filtered_chunks[i].relevance_score

\* re-ranking returned after one LLM call failed and another was used
C7_Witness ==
    /\ pc = "packing"
    /\ \E k \in 1..Len(eval_log) : EvalUnusable(eval_log[k])
    /\ \E k \in 1..Len(eval_log) :
          /\ ~EvalUnusable(eval_log[k])
          /\ \E j \in 1..Len(reranked_chunks) :
                /\ reranked_chunks[j].source_id = filtered_chunks[k].source_id
                /\ reranked_chunks[j].relevance_score # filtered_chunks[k].relevance_score

\* C8: with no LLM client, generate_answer does not raise for a non-empty chunk
\* list: it returns the fallback answer built from a preview of the context
\* string, with confidence exactly 0.5.
C8_FallbackWithoutClient ==
    (~client /\ semantic_results.ok /\ final_chunks # <<>>) =>
        /\ pc \notin {"failed", "logging_failure"}
        /\ pc \in {"logging", "done"} =>
              /\ result.confidence_score = <<1, 2>>
              /\ result.answer =
                     "Based on the available context:\n\n"
                     \o Prefix(construct_context_string(
                                   Take(final_chunks, request.max_results)), 500)
                     \o "...\n\nI cannot provide a complete answer as the AI service is not configured."

\* the fallback answer was returned for chunks whose relevance is not 0.5
C8_Witness ==
    /\ pc = "done"
    /\ ~client
    /\ Len(final_chunks) = 2
    /\ \A i \in 1..2 : final_chunks[i].relevance_score # <<1, 2>>
    /\ response.status = 200

\* C9: a request whose query is empty or longer than 1000 characters, or whose
\* max_results is outside 1..20, is rejected with a 422 before any pipeline
\* stage runs: no index query and no LLM call is made for it.
C9_InvalidRequestRejected ==
    (/\ pc # "received"
     /\ \/ Len(request.query) = 0
        \/ Len(request.query) > 1000
        \/ request.max_results \notin 1..20)
    => /\ pc = "rejected"
       /\ response.status = 422
       /\ index_calls = 0
       /\ gen_calls = 0
       /\ eval_log = <<>>

\* a query of 1001 characters was rejected
C9_Witness ==
    /\ pc = "rejected"
    /\ Len(request.query) = 1001
    /\ response.status = 422

\* C10: filtering is idempotent: the filter applied to its own output returns
\* that output, same chunks in the same order.
C10_FilterIdempotent ==
    pc = "reranking" =>
        apply_advanced_filtering(filtered_chunks, request.filter_params) = filtered_chunks

\* the filter has dropped chunks and kept several
C10_Witness ==
    /\ pc = "reranking"
    /\ Len(filtered_chunks) >= 2
    /\ Len(filtered_chunks) < Len(context_chunks)

\* |A & B| / |A | B| over the lower-cased whitespace-split words of two contents
JaccardOverlap(content_a, content_b) ==
    LET words_a == WordSet(Lower(content_a))
        words_b == WordSet(Lower(content_b))
    IN  Rat(Cardinality(words_a \cap words_b), Cardinality(words_a \cup words_b))

\* sub is an order-preserving sub-sequence of seq (seq has no element twice)
IsSubSequence(sub, seq) ==
    /\ \A a \in 1..Len(sub) : \E k \in 1..Len(seq) : seq[k] = sub[a]
    /\ \A a, b \in 1..Len(sub) : a < b =>
          \E k, m \in 1..Len(seq) : k < m /\ seq[k] = sub[a] /\ seq[m] = sub[b]

\* C11: for every non-empty input list, the diversity filter keeps the first
\* chunk of its input as the first chunk of its output.
C11_DiversityKeepsFirst ==
    (pc = "reranking" /\ user_chunks # <<>>) =>
        /\ filtered_chunks # <<>>
        /\ filtered_chunks[1] = user_chunks[1]

\* the diversity filter dropped a later chunk that overlaps the first
C11_Witness ==
    /\ pc = "reranking"
    /\ Len(user_chunks) = 2
    /\ Len(filtered_chunks) = 1
    /\ RLt(<<7, 10>>, JaccardOverlap(user_chunks[1].content, user_chunks[2].content))

\* C12 as claimed: of two chunks of word overlap at least 70%, given in
\* descending score order, the diversity filter returns only the first.
C12_DropsAtSeventyPercent ==
    (/\ pc = "reranking"
     /\ Len(user_chunks) = 2
     /\ RLt(user_chunks[2].relevance_score, user_chunks[1].relevance_score)
     /\ RLe(<<7, 10>>, JaccardOverlap(user_chunks[1].content, user_chunks[2].content)))
    => filtered_chunks = <<user_chunks[1]>>

\* C12 as amended: of two chunks of word overlap greater than 70%, given in
\* descending score order, the diversity filter returns only the first.
C12_DropsAboveSeventyPercent ==
    (/\ pc = "reranking"
     /\ Len(user_chunks) = 2
     /\ RLt(user_chunks[2].relevance_score, user_chunks[1].relevance_score)
     /\ RLt(<<7, 10>>, JaccardOverlap(user_chunks[1].content, user_chunks[2].content)))
    => filtered_chunks = <<user_chunks[1]>>

\* two chunks that differ in the case of a word and in one more word, scores
\* 0.75 and 0.5: only the first is returned
C12_Witness ==
    /\ pc = "reranking"
    /\ Len(user_chunks) = 2
    /\ user_chunks[1].relevance_score = <<3, 4>>
    /\ user_chunks[2].relevance_score = <<1, 2>>
    /\ JaccardOverlap(user_chunks[1].content, user_chunks[2].content) = <<7, 8>>
    /\ WordSet(user_chunks[1].content) \cap WordSet(user_chunks[2].content)
           # WordSet(Lower(user_chunks[1].content)) \cap WordSet(Lower(user_chunks[2].content))
    /\ filtered_chunks = <<user_chunks[1]>>

\* the content is not junk: at least 10 characters once trimmed, and no junk prefix
NotJunk(content) ==
    /\ Len(Strip(content)) >= 10
    /\ ~StartsWith(Lower(content), "error")
    /\ ~StartsWith(Lower(content), "warning")
    /\ ~StartsWith(Lower(content), "debug")

\* C13: the filter output holds no chunk whose trimmed content is shorter than
\* 10 characters and none whose content starts, case-insensitively, with
\* "error", "warning" or "debug"; every other chunk passes the quality stage.
C13_QualityFilter ==
    pc = "reranking" =>
        /\ \A i \in 1..Len(filtered_chunks) : NotJunk(filtered_chunks[i].content)
        /\ \A i \in 1..Len(quality_chunks) : NotJunk(quality_chunks[i].content)
        /\ IsSubSequence(quality_chunks, context_chunks)
        /\ \A k \in 1..Len(context_chunks) :
              NotJunk(context_chunks[k].content) =>
                  \E i \in 1..Len(quality_chunks) : quality_chunks[i] = context_chunks[k]

\* the quality stage dropped "Error: disk full", of relevance 0.75, and kept another chunk
C13_Witness ==
    /\ pc = "reranking"
    /\ Len(context_chunks) = 2
    /\ Len(quality_chunks) = 1
    /\ \E k \in 1..2 :
          /\ context_chunks[k].content = "Error: disk full"
          /\ context_chunks[k].relevance_score = <<3, 4>>

\* C14: the filter output is an order-preserving sub-sequence of its input in
\* which every chunk has the file_type of filter_params when that key is
\* present, and relevance_score >= min_score when that key is present.
C14_UserFilter ==
    pc = "reranking" =>
        /\ IsSubSequence(filtered_chunks, context_chunks)
        /\ "file_type" \in request.filter_params.keys =>
              \A i \in 1..Len(filtered_chunks) :
                  filtered_chunks[i].metadata.file_type = request.filter_params.file_type
        /\ "min_score" \in request.filter_params.keys =>
              \A i \in 1..Len(filtered_chunks) :
                  RLe(request.filter_params.min_score, filtered_chunks[i].relevance_score)

\* both keys are present; a chunk of the right type fell to min_score and one was kept
C14_Witness ==
    /\ pc = "reranking"
    /\ request.filter_params.keys = {"file_type", "min_score"}
    /\ Len(quality_chunks) = 2
    /\ \A i \in 1..2 : quality_chunks[i].metadata.file_type = "pdf"
    /\ Len(filtered_chunks) = 1

\* C15: the list the re-ranker returns is in non-increasing order of the final
\* relevance_score, chunks of equal score in the order of the re-ranker's
\* input; the list retrieve_context returns is in non-increasing order too.
C15_SortedStable ==
    /\ pc = "packing" =>
          \A a, b \in 1..Len(reranked_chunks) :
              a < b =>
                  /\ RLe(reranked_chunks[b].relevance_score,
                         reranked_chunks[a].relevance_score)
                  /\ reranked_chunks[a].relevance_score = reranked_chunks[b].relevance_score
                         => \E k, m \in 1..Len(filtered_chunks) :
                               /\ k < m
                               /\ filtered_chunks[k].source_id = reranked_chunks[a].source_id
                               /\ filtered_chunks[m].source_id = reranked_chunks[b].source_id
    /\ pc = "packed" =>
          \A a, b \in 1..Len(final_chunks) :
              a < b => RLe(final_chunks[b].relevance_score, final_chunks[a].relevance_score)

\* the LLM scored some candidates and two chunks came out with the same score,
\* one of them moved up past others
C15_Witness ==
    /\ pc = "packing"
    /\ eval_log # <<>>
    /\ reranked_chunks # filtered_chunks
    /\ \E a \in 1..(Len(reranked_chunks) - 1) :
          reranked_chunks[a].relevance_score = reranked_chunks[a + 1].relevance_score

\* C16 as claimed: every entry of the response's sources has a content preview
\* of at most 200 characters.
C16_PreviewAtMost200 ==
    pc = "done" =>
        \A i \in 1..Len(response.sources) :
            Len(response.sources[i].content_preview) <= 200

\* C16 as amended: every entry of the response's sources has a content preview
\* of at most 203 characters: the content of its chunk when that has at most
\* 200 characters, its first 200 characters followed by "..." otherwise.
C16_PreviewAtMost203 ==
    pc = "done" =>
        /\ Len(response.sources) <= Len(final_chunks)
        /\ \A i \in 1..Len(response.sources) :
              LET content == final_chunks[i].content
                  preview == response.sources[i].content_preview
              IN  /\ response.sources[i].id = final_chunks[i].source_id
                  /\ Len(preview) <= 203
                  /\ Len(content) <= 200 => preview = content
                  /\ Len(content) > 200 => preview = SubSeq(content, 1, 200) \o "..."

\* the response has two sources with cut previews, of a whole chunk and of a
\* chunk the packer had truncated
C16_Witness ==
    /\ pc = "done"
    /\ Len(response.sources) = 2
    /\ \A i \in 1..2 : Len(response.sources[i].content_preview) = 203
    /\ Len(final_chunks[1].content) = 15599
    /\ Len(final_chunks[2].content) = 407

\* the estimated tokens of the first k chunks
RECURSIVE PrefixTokens(_, _)
PrefixTokens(chunks, k) ==
    IF k = 0 THEN 0 ELSE PrefixTokens(chunks, k - 1) + (Len(chunks[k].content) \div 4)

\* how many leading chunks the packer takes whole: the budget and the chunk limit
FullCount(chunks) ==
    LET fits == {k \in 0..Len(chunks) : k <= 5 /\ PrefixTokens(chunks, k) <= 4000}
    IN  CHOOSE k \in fits : \A m \in fits : m <= k

\* the next chunk in order, cut to the remaining budget
CutToBudget(chunks, k) ==
    [chunks[k + 1] EXCEPT !.content =
        SubSeq(chunks[k + 1].content, 1, (4000 - PrefixTokens(chunks, k)) * 4) \o "..."]

\* C20 as claimed: when the next chunk in order does not fit and at least 100
\* estimated tokens remain, it is included, truncated to
\* content[:remaining_tokens*4] + "...", as the last element of the output.
C20_TruncatesFromHundred ==
    pc = "packed" =>
        LET k == FullCount(reranked_chunks)
        IN  (k < 5 /\ k < Len(reranked_chunks)
                /\ 4000 - PrefixTokens(reranked_chunks, k) >= 100)
            => final_chunks = SubSeq(reranked_chunks, 1, k)
                                  \o <<CutToBudget(reranked_chunks, k)>>

\* C20 as amended: when the next chunk in order does not fit and more than 100
\* estimated tokens remain, it is included, truncated to
\* content[:remaining_tokens*4] + "...", as the last element of the output, and
\* no later chunk is considered; when 100 tokens or fewer remain it is left
\* out and packing stops.
C20_TruncatesAboveHundred ==
    pc = "packed" =>
        LET k == FullCount(reranked_chunks)
        IN  (k < 5 /\ k < Len(reranked_chunks)) =>
                IF 4000 - PrefixTokens(reranked_chunks, k) > 100
                THEN final_chunks = SubSeq(reranked_chunks, 1, k)
                                        \o <<CutToBudget(reranked_chunks, k)>>
                ELSE final_chunks = SubSeq(reranked_chunks, 1, k)

\* 101 tokens remained after the first chunk and the second was cut to 404
\* characters and "..."
C20_Witness ==
    /\ pc = "packed"
    /\ Len(reranked_chunks) = 2
    /\ PrefixTokens(reranked_chunks, 1) = 3899
    /\ Len(final_chunks) = 2
    /\ Len(final_chunks[2].content) = 407

\* C17: with no LLM call made, every pass of filter, re-rank, pack and generate
\* over the same held chunks returns the chunk order, the chunk contents and
\* the answer and confidence of the first pass.
C17_RerunDeterministic ==
    \A k \in 1..Len(run_outputs) : run_outputs[k] = run_outputs[1]

\* C18: create_chunks terminates for every text and every ChunkConfig; it then
\* returns [] for the empty text, at least one chunk for a non-blank text when
\* overlap >= size, and the text as the only chunk for a non-blank text no
\* longer than size.
C18_CreateChunksTerminates ==
    /\ <>(cc_pc = "returned")
    /\ [](cc_pc = "returned" =>
            /\ cc_text = "" => cc_chunks = <<>>
            /\ (Strip(cc_text) # "" /\ cc_config.overlap >= cc_config.size)
                   => Len(cc_chunks) >= 1
            /\ (Strip(cc_text) # "" /\ Len(cc_text) <= cc_config.size)
                   => cc_chunks = <<cc_text>>)

\* the response is not valid JSON, misses fields or has a score out of range
InvalidResponse(llm) ==
    llm.content \in {OutOfRangeJson.text, NegativeJson.text, MissingFieldsJson.text,
                     ListJson.text, Fence \o "json\n" \o GoodJson.text,
                     "The response is relevant and clear."}

\* the LLM evaluation failed: an API error, or max_retries invalid responses in a row
EvaluationFailed ==
    \/ \E k \in 1..Len(ev_responses) : ev_responses[k].raises
    \/ /\ Len(ev_responses) = 3
       /\ \A k \in 1..3 : ~ev_responses[k].raises /\ InvalidResponse(ev_responses[k])

\* C19: evaluate_response never raises; whenever the LLM evaluation fails it
\* returns the fallback result, overall_score 2.5 and
\* evaluation_metadata.fallback = True, after at most 3 LLM calls.
C19_EvaluationFallback ==
    /\ ev_calls <= 3
    /\ ev_result.raised = FALSE
    /\ ev_pc = "returned" =>
          /\ "overall_score" \in DOMAIN ev_result
          /\ EvaluationFailed =>
                /\ ev_result.overall_score = <<5, 2>>
                /\ "fallback" \in DOMAIN ev_result.evaluation_metadata
                /\ ev_result.evaluation_metadata.fallback = TRUE

\* the fallback was returned after three invalid responses, the last two
\* different from the first
C19_Witness ==
    /\ ev_pc = "returned"
    /\ ev_calls = 3
    /\ \A k \in 1..3 : InvalidResponse(ev_responses[k])
    /\ ev_responses[1] # ev_responses[2]
    /\ ev_responses[2] # ev_responses[3]
    /\ ev_result.overall_score = <<5, 2>>
    /\ ev_result.evaluation_metadata.fallback = TRUE

\* the chunks already submitted to the re-ranking LLM, by position
Submitted ==
    IF client THEN 1..(rerank_i - 1) ELSE {}

\* min(8, len(chunks)) for the chunks that reached the re-ranker
CandidateLimit ==
    IF Len(filtered_chunks) < 8 THEN Len(filtered_chunks) ELSE 8

\* the number of chunks that arrived with a higher relevance_score than chunk i
Outscoring(i) ==
    Cardinality({j \in 1..Len(filtered_chunks) :
        RLt(filtered_chunks[i].relevance_score, filtered_chunks[j].relevance_score)})

\* C21: with more than final_context_chunks chunks, the chunks submitted to the
\* LLM are exactly the min(8, len(chunks)) chunks that arrived with the highest
\* relevance_score, in every order in which retrieve_context hands the chunks
\* to the re-ranker: a submitted chunk is outscored by fewer than min(8, len)
\* chunks, only a submitted chunk has its score changed, and when the loop is
\* over min(8, len) chunks have been submitted.
C21_CandidatesAreTopScored ==
    pc = "evaluating" =>
        /\ Len(rerank_chunks) = Len(filtered_chunks)
        /\ \A i \in Submitted : Outscoring(i) < CandidateLimit
        /\ \A i \in 1..Len(rerank_chunks) :
               /\ rerank_chunks[i].source_id = filtered_chunks[i].source_id
               /\ rerank_chunks[i].relevance_score # filtered_chunks[i].relevance_score
                      => i \in Submitted
        /\ (client /\ rerank_i > CandidateLimit) =>
               Cardinality(Submitted) = CandidateLimit

\* nine chunks reached the re-ranker, the loop is over: the eight submitted
\* chunks have new scores and the ninth, which every other chunk outscores,
\* was not submitted
C21_Witness ==
    /\ pc = "evaluating"
    /\ client
    /\ Len(filtered_chunks) = 9
    /\ rerank_i = 9
    /\ Submitted = 1..8
    /\ Outscoring(9) = 8
    /\ \A i \in 1..8 :
          rerank_chunks[i].relevance_score # filtered_chunks[i].relevance_score
    /\ rerank_chunks[9] = filtered_chunks[9]

\* C22: the re-ranker makes no LLM call for at most final_context_chunks chunks,
\* and otherwise at most min(8, number of chunks) calls, one after another, at
\* most one per candidate: call k is for chunk k.
C22_RerankCallsBounded ==
    /\ pc \in {"reranking", "evaluating", "packing"} =>
          /\ Len(filtered_chunks) <= final_context_chunks => eval_log = <<>>
          /\ Len(eval_log) <= CandidateLimit
    /\ pc = "evaluating" => Len(eval_log) = Cardinality(Submitted)

\* the re-ranker returned after eight calls for nine chunks
C22_Witness ==
    /\ pc = "packing"
    /\ Len(filtered_chunks) = 9
    /\ Len(eval_log) = 8

\* C23: after re-ranking every chunk's relevance_score is in [0, 1], for every
\* response text of the LLM.
C23_RerankedScoreInUnitInterval ==
    pc = "packing" =>
        \A i \in 1..Len(reranked_chunks) : InUnit(reranked_chunks[i].relevance_score)

\* the position of a handler state in the order of the stages
StageRank(p) ==
    CASE p = "received" -> 0
      [] p = "retrieving" -> 1
      [] p = "filtering" -> 2
      [] p = "reranking" -> 3
      [] p = "evaluating" -> 4
      [] p = "packing" -> 5
      [] p = "packed" -> 6
      [] p = "logging" -> 7
      [] p = "logging_failure" -> 8
      [] OTHER -> 9

\* C24: the stages of a query run in the order retrieve, filter, rerank, pack,
\* generate, each at most once; the index is queried at most once and the
\* generation LLM called at most once; after a failed stage no later stage runs
\* and the query ends in failure.
C24_StagesOnceInOrder ==
    /\ [](index_calls <= 1 /\ gen_calls <= 1)
    /\ []((pc \in {"logging_failure", "failed"} /\ ~semantic_results.ok) =>
             /\ filtered_chunks = <<>> /\ reranked_chunks = <<>> /\ final_chunks = <<>>
             /\ eval_log = <<>> /\ gen_calls = 0 /\ result = NoResult)
    /\ []((pc \in {"logging_failure", "failed"}) => result = NoResult)
    /\ [](pc = "failed" => response.status = 500)
    /\ [][/\ StageRank(pc') > StageRank(pc) \/ (pc = "evaluating" /\ pc' = "evaluating")
          /\ pc = "logging_failure" => pc' = "failed"
          /\ index_calls' # index_calls => pc = "retrieving"
          /\ gen_calls' # gen_calls => pc = "packed"]_vars

\* the index query failed: the query ended in failure with no later stage run
C24_Witness ==
    /\ pc = "failed"
    /\ ~semantic_results.ok
    /\ index_calls = 1
    /\ gen_calls = 0

\* the response of a query that runs alone against the same index and LLM answers
RunAlone(state) ==
    QueryResponse(client,
                  select_optimal_context(
                      llm_rerank_contexts(client,
                          apply_advanced_filtering(BuildChunks(state.hits),
                                                   request.filter_params),
                          state.evals)),
                  request.max_results, request.include_metadata, state.gen)

\* C25: for every interleaving of two queries at their suspend points, each
\* query's response (chunks, scores, truncated contents, answer, confidence) is
\* the response it produces when it runs alone.
C25_QueriesIndependent ==
    \A q \in DOMAIN cq_state :
        cq_state[q].pc = "done" => cq_state[q].response = RunAlone(cq_state[q])

\* both queries got the same six hits, were re-ranked and packed one between
\* the stages of the other, and answered
C25_Witness ==
    /\ cq_state # <<>>
    /\ client
    /\ \A q \in DOMAIN cq_state :
          /\ cq_state[q].pc = "done"
          /\ Len(cq_state[q].hits) = 6
          /\ cq_state[q].response.status = 200
    /\ cq_state[1].evals # cq_state[2].evals
    /\ cq_state[1].refs[1] > cq_state[2].refs[1]

\* C26: under concurrent first calls of get_instance at most one ChromaDB
\* instance is ever constructed and every successful caller receives it; when
\* construction raises, _instance stays None, so that a later call constructs.
C26_SingleInstance ==
    /\ ds_built <= 1
    /\ ds_built = 0 <=> ds_instance = None
    /\ \A t \in DOMAIN ds_pc :
          /\ ds_pc[t] = "returned" =>
                 ds_result[t] = ChromaDBInstance(1) /\ ds_instance = ChromaDBInstance(1)
          /\ ds_pc[t] = "constructing" => ds_lock = t /\ ds_instance = None
          /\ ds_pc[t] = "raised" => ds_result[t] = "HTTPException 500"

\* one thread's construction raised, a second thread constructed the instance
\* after it, and a third that had waited for the lock received that instance
C26_Witness ==
    /\ ds_pc # <<>>
    /\ \E t, u, v \in DOMAIN ds_pc :
          /\ ds_pc[t] = "raised"
          /\ ds_pc[u] = "returned"
          /\ ds_pc[v] = "returned"
          /\ u # v
    /\ ds_built = 1

\* C27: the packer's output is a prefix of its input in input order, only its
\* last chunk possibly truncated: once a chunk is not included no later chunk
\* is, even when a later, smaller chunk would have fitted.
C27_PackerReturnsPrefix ==
    pc = "packed" =>
        /\ Len(final_chunks) <= Len(reranked_chunks)
        /\ \A i \in 1..(Len(final_chunks) - 1) : final_chunks[i] = reranked_chunks[i]
        /\ final_chunks # <<>> =>
               /\ final_chunks[Len(final_chunks)].source_id
                      = reranked_chunks[Len(final_chunks)].source_id
               /\ \/ final_chunks[Len(final_chunks)] = reranked_chunks[Len(final_chunks)]
                  \/ /\ final_chunks[Len(final_chunks)]
                            = CutToBudget(reranked_chunks, Len(final_chunks) - 1)
                     /\ SumTokens(final_chunks) = 4000

\* the second chunk did not fit the 100 tokens left and was dropped, and the
\* third, of 8 tokens, was left out after it
C27_Witness ==
    /\ pc = "packed"
    /\ Len(reranked_chunks) = 3
    /\ Len(final_chunks) = 1
    /\ SumTokens(final_chunks) = 3900
    /\ SumTokens(<<reranked_chunks[3]>>) = 8

\* C28: after DELETE /documents/{id} returned, with success or with an error,
\* to the document's owner or to an administrator, for any outcome of the
\* vector-store deletion, the document's SQL row exists iff its chunks are still
\* in the vector index.
C28_RowIffVectors ==
    (/\ dl_pc = "returned"
     /\ dl_response.status \in {200, 500}
     /\ dl_document.chunk_ids # <<>>
     /\ \/ dl_document.owner_id = dl_request.current_user.id
        \/ dl_request.current_user.is_admin)
    => \/ dl_document \in dl_rows /\ ChunkIdSet(dl_document.chunk_ids) \subseteq dl_index
       \/ dl_document \notin dl_rows /\ ChunkIdSet(dl_document.chunk_ids) \cap dl_index = {}

\* the calls of the identifier that returned True at a time in [from, from + window)
AllowedWithin(identifier, from) ==
    {i \in 1..Len(rl_log) :
        /\ rl_log[i].identifier = identifier
        /\ rl_log[i].returned
        /\ from <= rl_log[i].now
        /\ rl_log[i].now < from + rl_config.window}

\* how often the timestamp is in the list
CountOf(timestamps, timestamp) ==
    Cardinality({i \in 1..Len(timestamps) : timestamps[i] = timestamp})

\* C29: for every identifier and every sequence of check_rate_limit calls with a
\* fixed limit and window, at most limit calls return True within any interval of
\* window seconds (from a second on, up to but without the second window later);
\* a call that returns False records no timestamp; a call for one identifier
\* never changes the stored timestamps of another identifier.
C29_RateLimitHolds ==
    /\ [](\A identifier \in Identifiers : \A from \in 0..MaxClock :
              Cardinality(AllowedWithin(identifier, from)) <= rl_config.limit)
    /\ [][rl_log' # rl_log =>
            LET call == rl_log'[Len(rl_log')]
                before == StoredTimestamps(rl_storage, call.identifier)
                after == rl_storage'[call.identifier]
            IN  /\ ~call.returned =>
                      \A timestamp \in 0..MaxClock :
                          CountOf(after, timestamp) <= CountOf(before, timestamp)
                /\ \A other \in DOMAIN rl_storage' \ {call.identifier} :
                      /\ other \in DOMAIN rl_storage
                      /\ rl_storage'[other] = rl_storage[other]]_vars

\* an identifier was allowed, refused while another identifier holds a
\* timestamp, and allowed again after the window
C29_Witness ==
    \E i, j, k \in 1..Len(rl_log) :
        /\ i < j /\ j < k
        /\ rl_log[i].identifier = rl_log[j].identifier
        /\ rl_log[j].identifier = rl_log[k].identifier
        /\ rl_log[i].returned /\ ~rl_log[j].returned /\ rl_log[k].returned
        /\ \E other \in DOMAIN rl_storage \ {rl_log[i].identifier} :
              rl_storage[other] # <<>>

\* the request carries a valid API key: the stored hash matches, the key is
\* active and has not expired; and the database answered every query
CarriesValidKey ==
    /\ ak_request.authorization # ""
    /\ \A i \in 1..Len(ak_queried) : ak_queried[i]
    /\ \E id \in DOMAIN ak_before :
          /\ ak_before[id].key_hash = hash_api_key(ak_request.authorization)
          /\ ak_before[id].is_active
          /\ ak_before[id].expires_at = <<>> \/ ak_before[id].expires_at[1] >= ak_request.now

\* C30: a request that carries a valid API key (stored hash matches, is_active,
\* not expired) is authenticated by verify_api_key: it returns that key's APIKey
\* object, the key's total_requests is incremented by one and last_used is
\* updated, and, unless a rate limit refuses the request,
\* get_current_user_or_api_key yields auth_type "api_key" with the key's owner
\* as user.
C30_ValidKeyAuthenticated ==
    (CarriesValidKey /\ ak_pc \in {"verified", "returned"}) =>
        /\ ak_api_key # <<>>
        /\ ak_api_key[1].key_hash = hash_api_key(ak_request.authorization)
        /\ \A id \in DOMAIN ak_before :
              ak_before[id].key_hash = hash_api_key(ak_request.authorization) =>
                  /\ ak_keys[id].total_requests = ak_before[id].total_requests + 1
                  /\ ak_keys[id].last_used = <<ak_request.now>>
        /\ (ak_pc = "returned" /\ ak_result.status # 429) =>
              /\ ak_result.status = 200
              /\ ak_result.auth_type = "api_key"
              /\ ak_result.user = get_user(ak_api_key[1].owner_id, TRUE)
====
